---------------------------- MODULE Spec2Model ----------------------------
(***************************************************************************)
(* Verification model of the block-parallel compression core:              *)
(*   - thread_pool.c : tp_create / tp_submit / tp_wait / tp_destroy and    *)
(*                     the worker loop tp_worker_main                      *)
(*   - main.c        : compress_chunked, compress_chunked_parallel,        *)
(*                     compress_chunk_worker, decompress_chunked           *)
(*   - lzw.c, rle_var.c, huffman_predictor.c : the per-block codecs        *)
(*                                                                         *)
(* Threads are modelled at the granularity of the pool mutex: taking the   *)
(* mutex is one step, the critical section up to the unlock (or up to the  *)
(* pthread_cond_wait that releases it) is the next step.  A task function  *)
(* runs outside the mutex as a step of its own.                            *)
(***************************************************************************)
EXTENDS Integers, Sequences, FiniteSets, TLC

(* ------------------------------ bounds -------------------------------- *)
NWorkers == 2      \* largest nthreads handed to tp_create, two clients
BurstWorkers == 1  \* largest nthreads handed to tp_create, one burst
MaxTasks == 3      \* tp_submit calls made when two client threads interleave
BurstTasks == 17   \* tp_submit calls made by a single client (one burst)
MaxWaits == 2      \* tp_wait calls that are followed by further calls
HpMaxOut == 40     \* decoded Huffman symbols that are listed one by one
MaxLen == 4        \* longest buffer of the enumerated compress inputs
MaxChunk == 3      \* largest chunk size of the enumerated compress inputs
ExampleRun == 10   \* run length and chunk size of the 30-byte example
ParLen == 3        \* longest buffer compressed through the thread pool
ParChunk == 2      \* largest chunk size compressed through the thread pool
ParWorkers == 2    \* most worker threads of compress_chunked_parallel
LiveWorkers == 1   \* largest nthreads handed to tp_create, fair scheduling
LiveTasks == 2     \* tp_submit calls made under fair scheduling
LiveWaits == 1     \* tp_wait calls followed by further calls, fair scheduling

(* ------------------------- program constants -------------------------- *)
InitQCap == 16     \* tp->q_cap = 16 in tp_create

(* ============================== codecs ================================ *)
\* A codec call yields its return code (0 or -1) and its output buffer.
\* `ub` marks a call that ran into undefined behaviour (a NULL dereference);
\* `more` counts output bytes that exist but are not listed (see HpMaxOut).
Ok(bytes) == [rc |-> 0, out |-> bytes, ub |-> FALSE, more |-> 0]
Err == [rc |-> 0 - 1, out |-> <<>>, ub |-> FALSE, more |-> 0]

RECURSIVE Pow2(_)
Pow2(n) == IF n = 0 THEN 1 ELSE 2 * Pow2(n - 1)
RECURSIVE Repeat(_, _)
Repeat(v, n) == IF n <= 0 THEN <<>> ELSE <<v>> \o Repeat(v, n - 1)
RECURSIVE Concat(_)
Concat(ss) == IF ss = <<>> THEN <<>> ELSE Head(ss) \o Concat(Tail(ss))

(* ------------------------------ rle_var.c ----------------------------- *)
RleMaxRun == 127   \* longest run / literal block, 7 bits
RleMinRun == 3     \* runs shorter than this are written as literals
RleRunFlag == 128  \* 0x80, the header bit of a run block

\* lines 63-64 (and 77-78): length of the run that starts at position p
RECURSIVE RleRun(_, _, _)
RleRun(in, p, run) ==
    IF p + run <= Len(in) /\ in[p + run] = in[p] /\ run < RleMaxRun
      THEN RleRun(in, p, run + 1)
      ELSE run

\* lines 75-81: extend the literal block until a run of 3 starts or it
\* holds 127 bytes; p is the next input position
RECURSIVE RleLiteral(_, _, _)
RleLiteral(in, p, lit) ==
    IF p <= Len(in) /\ Len(lit) < RleMaxRun /\ RleRun(in, p, 1) < RleMinRun
      THEN RleLiteral(in, p + 1, Append(lit, in[p]))
      ELSE lit

\* lines 61-84: the main loop of rle_var_compress from position p
RECURSIVE RleCompressFrom(_, _, _)
RleCompressFrom(in, p, out) ==
    IF p > Len(in) THEN out
    ELSE LET run == RleRun(in, p, 1) IN
         IF run >= RleMinRun
           THEN RleCompressFrom(in, p + run,
                                out \o <<RleRunFlag + run, in[p]>>)
           ELSE LET lit == RleLiteral(in, p + 1, <<in[p]>>) IN
                RleCompressFrom(in, p + Len(lit), out \o <<Len(lit)>> \o lit)

\* lines 49-90
rle_var_compress(in) == Ok(RleCompressFrom(in, 1, <<>>))

\* lines 126-139 (the same checks as the sizing pass, lines 106-119)
RECURSIVE RleDecompressFrom(_, _, _)
RleDecompressFrom(in, p, out) ==
    IF p > Len(in) THEN Ok(out)
    ELSE LET hdr == in[p] IN
         IF hdr >= RleRunFlag
           THEN IF p + 1 > Len(in) THEN Err
                ELSE RleDecompressFrom(in, p + 2,
                        out \o Repeat(in[p + 1], hdr - RleRunFlag))
           ELSE IF p + hdr > Len(in) THEN Err
                ELSE RleDecompressFrom(in, p + 1 + hdr,
                        out \o SubSeq(in, p + 1, p + hdr))

\* lines 96-144
rle_var_decompress(in) == RleDecompressFrom(in, 1, <<>>)

(* -------------------------------- lzw.c ------------------------------- *)
LZW_MAX_CODES == 4096
LZW_BIT_WIDTH == 12
LzwFirstCode == 256   \* next_code = 256: codes 0..255 are the single bytes

\* The dictionary is the sequence of the entries added so far: entry k is
\* the pair <<prefix code, byte>> of code 255 + k (next[] in lzw_compress,
\* prefix[] / suffix[] in lzw_decompress).
LzwNextCode(d) == LzwFirstCode + Len(d)

\* line 94: nc = next[code * 256 + c], -1 when absent
LzwLookup(d, code, c) ==
    IF \E k \in 1..Len(d) : d[k] = <<code, c>>
      THEN (LzwFirstCode - 1) + (CHOOSE k \in 1..Len(d) : d[k] = <<code, c>>)
      ELSE 0 - 1

\* lines 102-104: add the entry unless the dictionary is full
LzwInsert(d, code, c) ==
    IF LzwNextCode(d) < LZW_MAX_CODES THEN Append(d, <<code, c>>) ELSE d

\* lines 91-110: the codes emitted from input position i on
RECURSIVE LzwEncode(_, _, _, _, _)
LzwEncode(in, i, code, d, codes) ==
    IF i > Len(in) THEN [codes |-> Append(codes, code), dict |-> d]
    ELSE LET c == in[i]
             nc == LzwLookup(d, code, c) IN
         IF nc # 0 - 1
           THEN LzwEncode(in, i + 1, nc, d, codes)
           ELSE LzwEncode(in, i + 1, c, LzwInsert(d, code, c),
                          Append(codes, code))

\* lines 62-65 and 69-72: move whole bytes out of the bit buffer
RECURSIVE LzwDrain(_, _, _, _)
LzwDrain(bitbuf, bitcount, out, min) ==
    IF bitcount >= min /\ bitcount > 0
      THEN LzwDrain(bitbuf \div 256, bitcount - 8,
                    Append(out, bitbuf % 256), min)
      ELSE [bitbuf |-> bitbuf, bitcount |-> bitcount, out |-> out]

\* lines 58-74: bw_write for every code, then bw_flush (LSB first); bitbuf
\* holds at most 7 + 12 bits, so its 32-bit width is never reached
RECURSIVE LzwPack(_, _, _, _)
LzwPack(codes, bitbuf, bitcount, out) ==
    IF codes = <<>> THEN LzwDrain(bitbuf, bitcount, out, 1).out
    ELSE LET v == bitbuf + (Head(codes) % Pow2(LZW_BIT_WIDTH))
                             * Pow2(bitcount)
             st == LzwDrain(v, bitcount + LZW_BIT_WIDTH, out, 8) IN
         LzwPack(Tail(codes), st.bitbuf, st.bitcount, st.out)

\* lines 76-123
lzw_compress(in) ==
    IF Len(in) = 0 THEN Err
    ELSE Ok(LzwPack(LzwEncode(in, 2, in[1], <<>>, <<>>).codes, 0, 0, <<>>))

\* lines 128-139: br_read until no full code is left
RECURSIVE LzwUnpack(_, _, _, _, _)
LzwUnpack(in, pos, bitbuf, bitcount, codes) ==
    IF bitcount < LZW_BIT_WIDTH /\ pos <= Len(in)
      THEN LzwUnpack(in, pos + 1, bitbuf + in[pos] * Pow2(bitcount),
                     bitcount + 8, codes)
    ELSE IF bitcount < LZW_BIT_WIDTH THEN codes
    ELSE LzwUnpack(in, pos, bitbuf \div Pow2(LZW_BIT_WIDTH),
                   bitcount - LZW_BIT_WIDTH,
                   Append(codes, bitbuf % Pow2(LZW_BIT_WIDTH)))

\* lines 181-185: the byte string of a code, by walking prefix[] to -1
RECURSIVE LzwString(_, _)
LzwString(d, code) ==
    IF code < LzwFirstCode THEN <<code>>
    ELSE LET e == d[code - (LzwFirstCode - 1)] IN
         Append(LzwString(d, e[1]), e[2])

\* lines 179-203: a known code, the KwKwK code, or an invalid code. The
\* string is collected on decode_stack last byte first and written out from
\* the top of the stack down; for the KwKwK code the first byte of the
\* previous string is pushed on top of the stack (line 192), so it is
\* written before the previous string
LzwDecodeOne(d, code, old_code) ==
    IF code < LzwNextCode(d) THEN Ok(LzwString(d, code))
    ELSE IF code = LzwNextCode(d)
      THEN LET prev == LzwString(d, old_code) IN Ok(<<prev[1]>> \o prev)
      ELSE Err

\* lines 174-213: the decode loop over the codes after the first
RECURSIVE LzwDecode(_, _, _, _, _)
LzwDecode(codes, k, old_code, d, out) ==
    IF k > Len(codes) THEN [res |-> Ok(out), dict |-> d]
    ELSE LET one == LzwDecodeOne(d, codes[k], old_code) IN
         IF one.rc # 0 THEN [res |-> Err, dict |-> d]
         ELSE LzwDecode(codes, k + 1, codes[k],
                        LzwInsert(d, old_code, one.out[1]),
                        out \o one.out)

\* lines 141-223
lzw_decompress(in) ==
    IF Len(in) = 0 THEN Err
    ELSE LET codes == LzwUnpack(in, 1, 0, 0, <<>>) IN
         IF codes = <<>> THEN Err
         ELSE IF codes[1] >= LzwFirstCode THEN Err
         ELSE LzwDecode(codes, 2, codes[1], <<>>, <<codes[1]>>).res

(* ------------------------- huffman_predictor.c ------------------------ *)
\* A Node is <<"N", sym, freq, left, right>>; NULL is <<"Z">>.
Null == <<"Z">>
new_node(s, f, l, r) == <<"N", s, f, l, r>>
IsNull(n) == n[1] = "Z"
NodeSym(n) == n[2]
NodeFreq(n) == n[3]
NodeLeft(n) == n[4]
NodeRight(n) == n[5]
\* the leaf test `!n->left && !n->right` of lines 119, 150 and 260
IsLeaf(n) == IsNull(NodeLeft(n)) /\ IsNull(NodeRight(n))

\* lines 161-168: buf[i] = cur - prev, prev starts at 0
apply_predictor(buf) ==
    [i \in 1..Len(buf) |->
        (buf[i] - (IF i = 1 THEN 0 ELSE buf[i - 1]) + 256) % 256]

\* lines 171-178: buf[i] = buf[i] + prev, prev starts at 0
RECURSIVE UndoFrom(_, _, _, _)
UndoFrom(buf, i, prev, out) ==
    IF i > Len(buf) THEN out
    ELSE LET val == (buf[i] + prev) % 256 IN
         UndoFrom(buf, i + 1, val, Append(out, val))
undo_predictor_none(buf) == buf
undo_predictor(buf) == UndoFrom(buf, 1, 0, <<>>)

\* bits of a value, most significant first (bw_write_byte, lines 219-220)
RECURSIVE BitsMsb(_, _)
BitsMsb(v, width) ==
    IF width = 0 THEN <<>>
    ELSE Append(BitsMsb(v \div 2, width - 1), v % 2)

RECURSIVE ValueMsb(_, _, _, _)
ValueMsb(bits, pos, width, acc) ==
    IF width = 0 THEN acc
    ELSE ValueMsb(bits, pos + 1, width - 1, 2 * acc + bits[pos])

\* lines 189-194: one leaf per symbol that occurs, in symbol order
RECURSIVE HpLeaves(_, _)
HpLeaves(data, syms) ==
    IF syms = {} THEN <<>>
    ELSE LET m == CHOOSE x \in syms : \A y \in syms : x <= y
             f == Cardinality({i \in 1..Len(data) : data[i] = m}) IN
         <<new_node(m, f, Null, Null)>> \o HpLeaves(data, syms \ {m})

\* lines 200-203: scan for the two nodes of lowest frequency
HpScanNone(nodes, i, i1, i2) == <<i1, i2>>
RECURSIVE HpScan(_, _, _, _)
HpScan(nodes, i, i1, i2) ==
    IF i > Len(nodes) THEN <<i1, i2>>
    ELSE IF NodeFreq(nodes[i]) < NodeFreq(nodes[i1])
      THEN HpScan(nodes, i + 1, i, i1)
    ELSE IF NodeFreq(nodes[i]) < NodeFreq(nodes[i2])
      THEN HpScan(nodes, i + 1, i1, i)
    ELSE HpScan(nodes, i + 1, i1, i2)

\* lines 198-208: one merge of the build loop
HpMerge(nodes) ==
    LET n == Len(nodes)
        first == IF NodeFreq(nodes[2]) < NodeFreq(nodes[1])
                   THEN <<2, 1>> ELSE <<1, 2>>
        pick == HpScan(nodes, 3, first[1], first[2])
        a == nodes[pick[1]]
        b == nodes[pick[2]]
        parent == new_node(0, NodeFreq(a) + NodeFreq(b), a, b)
        s1 == [nodes EXCEPT ![pick[1]] = parent]
        s2 == [s1 EXCEPT ![pick[2]] = s1[n]] IN
    SubSeq(s2, 1, n - 1)

\* lines 197-210
RECURSIVE HpBuild(_)
HpBuild(nodes) ==
    IF Len(nodes) > 1 THEN HpBuild(HpMerge(nodes))
    ELSE IF Len(nodes) = 1 THEN nodes[1]
    ELSE new_node(0, 1, Null, Null)

\* lines 148-157: the <<symbol, code>> pairs of the leaves under n
RECURSIVE build_codes(_, _)
build_codes(n, pref) ==
    IF IsNull(n) THEN {}
    ELSE IF IsLeaf(n) THEN {<<NodeSym(n), pref>>}
    ELSE build_codes(NodeLeft(n), Append(pref, 0))
           \cup build_codes(NodeRight(n), Append(pref, 1))

\* lines 117-127
RECURSIVE serialize_tree(_)
serialize_tree(n) ==
    IF IsNull(n) THEN <<>>
    ELSE IF IsLeaf(n) THEN <<1>> \o BitsMsb(NodeSym(n), 8)
    ELSE <<0>> \o serialize_tree(NodeLeft(n)) \o serialize_tree(NodeRight(n))

\* lines 223-227: the code of every symbol of data, in order
RECURSIVE HpEncode(_, _, _)
HpEncode(data, i, tbl) ==
    IF i > Len(data) THEN <<>>
    ELSE (CHOOSE pr \in tbl : pr[1] = data[i])[2] \o HpEncode(data, i + 1, tbl)

\* line 215: the bit writer holds len * 3 bytes
HpCapacityFactor == 3
HpCapacityBits(len) == len * HpCapacityFactor * 8
\* lines 64-70: a bit written to a full writer is dropped
BwWritten(bits, capBits) ==
    IF Len(bits) > capBits THEN SubSeq(bits, 1, capBits) ELSE bits

\* lines 229-231: (bit_pos + 7) / 8 bytes, unused bits zero
RECURSIVE BytesOfBits(_)
BytesOfBits(bits) ==
    IF bits = <<>> THEN <<>>
    ELSE IF Len(bits) < 8
      THEN <<ValueMsb(bits \o Repeat(0, 8 - Len(bits)), 1, 8, 0)>>
    ELSE <<ValueMsb(bits, 1, 8, 0)>> \o BytesOfBits(SubSeq(bits, 9, Len(bits)))

RECURSIVE BitsOfBytes(_)
BitsOfBytes(bytes) ==
    IF bytes = <<>> THEN <<>>
    ELSE BitsMsb(Head(bytes), 8) \o BitsOfBytes(Tail(bytes))

\* the complete encoding: tree, 32-bit length, one code per symbol
HpAllBits(in) ==
    LET data == apply_predictor(in)
        root == HpBuild(HpLeaves(data, {data[i] : i \in 1..Len(data)}))
        tbl == build_codes(root, <<>>) IN
    serialize_tree(root) \o BitsMsb(Len(in), 32) \o HpEncode(data, 1, tbl)

\* lines 181-238
hp_compress_buffer(in) ==
    IF Len(in) = 0 THEN Err
    ELSE Ok(BytesOfBits(BwWritten(HpAllBits(in), HpCapacityBits(Len(in)))))

\* lines 129-145: the node read at bit position pos, and the position after;
\* `eof` tells that br_read_bit returned -1 on the way
RECURSIVE deserialize_tree(_, _)
deserialize_tree(bits, pos) ==
    IF pos > Len(bits) THEN [node |-> Null, pos |-> pos, eof |-> TRUE]
    ELSE IF bits[pos] = 1
      THEN IF pos + 8 > Len(bits)
             THEN [node |-> Null, pos |-> Len(bits) + 1, eof |-> TRUE]
             ELSE [node |-> new_node(ValueMsb(bits, pos + 1, 8, 0), 0,
                                     Null, Null),
                   pos |-> pos + 9, eof |-> FALSE]
    ELSE LET l == deserialize_tree(bits, pos + 1)
             r == deserialize_tree(bits, l.pos) IN
         [node |-> new_node(0, 0, l.node, r.node), pos |-> r.pos,
          eof |-> l.eof \/ r.eof]

\* lines 260-264: walk from cur to a leaf; the walk stops where the bits
\* end (`cut`), and stepping to a missing child is a NULL dereference
RECURSIVE HpWalk(_, _, _)
HpWalk(cur, bits, pos) ==
    IF IsNull(cur) THEN [ub |-> TRUE, sym |-> 0, pos |-> pos, cut |-> FALSE]
    ELSE IF IsLeaf(cur)
      THEN [ub |-> FALSE, sym |-> NodeSym(cur), pos |-> pos, cut |-> FALSE]
    ELSE IF pos > Len(bits)
      THEN [ub |-> FALSE, sym |-> NodeSym(cur), pos |-> pos, cut |-> TRUE]
    ELSE HpWalk(IF bits[pos] = 1 THEN NodeRight(cur) ELSE NodeLeft(cur),
                bits, pos + 1)

\* lines 259-267: the symbols decoded; at most HpMaxOut of them are listed,
\* the others are counted in `more`
RECURSIVE HpDecode(_, _, _, _, _)
HpDecode(root, bits, pos, left, out) ==
    IF left = 0 THEN Ok(undo_predictor(out))
    ELSE IF Len(out) >= HpMaxOut
      THEN [rc |-> 0, out |-> undo_predictor(out), ub |-> FALSE,
            more |-> left]
    ELSE LET w == HpWalk(root, bits, pos) IN
         IF w.ub THEN [rc |-> 0, out |-> undo_predictor(out), ub |-> TRUE,
                       more |-> left]
         ELSE HpDecode(root, bits, w.pos, left - 1, Append(out, w.sym))

\* lines 251-254: orig_len, four bytes, most significant first; a length
\* of HpHugeLen or more is counted as HpHugeLen
HpHugeLen == 1073741824
HpReadLen(bits, pos) ==
    LET hi == ValueMsb(bits, pos, 16, 0)
        lo == ValueMsb(bits, pos + 16, 16, 0) IN
    IF hi >= HpHugeLen \div 65536 THEN HpHugeLen ELSE hi * 65536 + lo

\* lines 250-253: one of the 32 bits of the length is missing
HpLenMissingNever(bits, pos) == FALSE
HpLenMissing(bits, pos) == pos + 31 > Len(bits)

\* lines 241-275
hp_decompress_buffer(in) ==
    IF Len(in) = 0 THEN Err
    ELSE LET bits == BitsOfBytes(in)
             t == deserialize_tree(bits, 1) IN
         IF IsNull(t.node) THEN Err
         ELSE IF HpLenMissing(bits, t.pos) THEN Err
         ELSE HpDecode(t.node, bits, t.pos + 32,
                       HpReadLen(bits, t.pos), <<>>)

(* ---------------------- main.c: the chunk layer ----------------------- *)
CompAlgs == {"RLEVAR", "LZW", "LZWPRED", "HUFFMANPRED"}

\* lines 206-211
wr32le(v) ==
    <<v % 256, (v \div 256) % 256, (v \div 65536) % 256,
      (v \div 16777216) % 256>>

\* lines 134-150: within each row of w pixels of ch channels, every byte
\* of the first w * h * ch is replaced by its difference to the byte one
\* pixel to the left (0 at the start of a row)
apply_predictor_sub(buf, w, h, ch) ==
    [i \in 1..Len(buf) |->
        IF i > w * h * ch THEN buf[i]
        ELSE LET x == ((i - 1) \div ch) % w IN
             (buf[i] - (IF x = 0 THEN 0 ELSE buf[i - ch]) + 256) % 256]

\* lines 152-168
RECURSIVE UndoSubFrom(_, _, _, _, _, _)
UndoSubFrom(buf, i, w, h, ch, out) ==
    IF i > Len(buf) THEN out
    ELSE IF i > w * h * ch
      THEN UndoSubFrom(buf, i + 1, w, h, ch, Append(out, buf[i]))
    ELSE LET x == ((i - 1) \div ch) % w
             cur == (buf[i] + (IF x = 0 THEN 0 ELSE out[i - ch])) % 256 IN
         UndoSubFrom(buf, i + 1, w, h, ch, Append(out, cur))
undo_predictor_sub(buf, w, h, ch) == UndoSubFrom(buf, 1, w, h, ch, <<>>)

\* lines 270-296 and 1076-1090: the codec switch of one chunk
CompressChunk(a, p) ==
    CASE a = "RLEVAR" -> rle_var_compress(p)
      [] a = "LZW" -> lzw_compress(p)
      [] a = "LZWPRED" -> lzw_compress(apply_predictor_sub(p, 1, 1, 1))
      [] a = "HUFFMANPRED" ->
            hp_compress_buffer(apply_predictor_sub(p, 1, 1, 1))
      [] OTHER -> Err

\* lines 338-348: the codec switch of one slice, and the predictor undone
DecompressChunk(a, p) ==
    LET r == CASE a = "RLEVAR" -> rle_var_decompress(p)
               [] a \in {"LZW", "LZWPRED"} -> lzw_decompress(p)
               [] a = "HUFFMANPRED" -> hp_decompress_buffer(p)
               [] OTHER -> Err IN
    IF r.rc # 0 \/ a \notin {"LZWPRED", "HUFFMANPRED"}
      THEN r
      ELSE [r EXCEPT !.out = undo_predictor_sub(r.out, 1, 1, 1)]

\* line 1100
NChunks(in_len, ch) == (in_len + ch - 1) \div ch
\* lines 1115-1119: block i (from 0) is in[off .. off + sz - 1]
ChunkOffset(i, ch) == i * ch
ChunkSizeFull(in_len, i, ch) == ch
ChunkSize(in_len, i, ch) ==
    IF ChunkOffset(i, ch) + ch > in_len
      THEN in_len - ChunkOffset(i, ch) ELSE ch
Chunk(in, i, ch) ==
    SubSeq(in, ChunkOffset(i, ch) + 1,
           ChunkOffset(i, ch) + ChunkSize(Len(in), i, ch))

\* line 1111: calloc'ed ChunkTask: err = 0, out = NULL, out_len = 0
EmptySlot == [err |-> 0, out |-> <<>>, out_len |-> 0]
\* lines 1070-1092
compress_chunk_worker(a, p) ==
    LET r == CompressChunk(a, p) IN
    [err |-> r.rc, out |-> r.out, out_len |-> Len(r.out)]

\* lines 1127-1148: fail if a block failed, else concatenate the blocks by
\* block index
RECURSIVE GatherFrom(_, _, _)
GatherFrom(tasks, i, n) ==
    IF i >= n THEN <<>>
    ELSE SubSeq(tasks[i].out, 1, tasks[i].out_len) \o GatherFrom(tasks, i + 1, n)
\* line 1128: if (tasks[i].err)
SlotFailedNever(t) == FALSE
SlotFailed(t) == t.err # 0
ParGather(tasks, n) ==
    IF \E i \in 0..(n - 1) : SlotFailed(tasks[i]) THEN Err
    ELSE Ok(GatherFrom(tasks, 0, n))

\* lines 1094-1149, with every task run once between tp_submit and tp_wait
compress_chunked_parallel(a, in, ch) ==
    LET n == NChunks(Len(in), ch) IN
    ParGather([i \in 0..(n - 1) |-> compress_chunk_worker(a, Chunk(in, i, ch))],
              n)

\* lines 259-309: the loop of the single-threaded path
CompressLoopRaw(a, in, ch, pos, out) == Ok(in)
RECURSIVE CompressLoop(_, _, _, _, _)
CompressLoop(a, in, ch, pos, out) ==
    IF pos >= Len(in) THEN Ok(out)
    ELSE LET csize == IF Len(in) - pos > ch THEN ch ELSE Len(in) - pos
             r == CompressChunk(a, SubSeq(in, pos + 1, pos + csize)) IN
         IF r.rc # 0 THEN Err
         ELSE CompressLoop(a, in, ch, pos + csize, out \o r.out)

\* lines 239-314
compress_chunked(a, in, ch) ==
    IF Len(in) > ch THEN compress_chunked_parallel(a, in, ch)
    ELSE CompressLoop(a, in, ch, 0, <<>>)

\* lines 328-333 and 356: the next slice is the next CH bytes of the
\* compressed buffer (fewer at the end)
SliceAt(in, ch, pos) ==
    SubSeq(in, pos + 1, pos + (IF Len(in) - pos > ch THEN ch ELSE Len(in) - pos))

\* lines 327-357: the loop of decompress_chunked; `handed` lists the
\* slices given to the codec
RECURSIVE DecompressLoop(_, _, _, _, _, _, _)
DecompressLoop(a, in, ch, pos, out, more, handed) ==
    IF pos >= Len(in)
      THEN [rc |-> 0, out |-> out, ub |-> FALSE, more |-> more,
            handed |-> handed]
    ELSE LET p == SliceAt(in, ch, pos)
             r == DecompressChunk(a, p) IN
         IF r.ub \/ r.rc # 0
           THEN [rc |-> r.rc, out |-> IF r.ub THEN out \o r.out ELSE <<>>,
                 ub |-> r.ub, more |-> more + r.more,
                 handed |-> Append(handed, p)]
           ELSE DecompressLoop(a, in, ch, pos + Len(p), out \o r.out,
                               more + r.more, Append(handed, p))

\* lines 317-359
decompress_chunked(a, in, ch) == DecompressLoop(a, in, ch, 0, <<>>, 0, <<>>)

VARIABLES
    mode,       \* "pool2": two client threads; "burst": one client thread;
                \* "par": compress_chunked_parallel; "codec": no pool;
                \* "fail": error paths of the chunk layer; "lzw": lzw.c;
                \* "hp": huffman_predictor.c; "live": pool, fair scheduling
    nthreads,   \* tp->nthreads
    queue,      \* tp->queue[0 .. q_count-1], as the sequence of queued tasks
    q_cap,      \* tp->q_cap
    stop,       \* tp->stop
    active,     \* tp->active
    mtx,        \* owner of tp->mtx
    cvHasWork,  \* workers blocked in pthread_cond_wait(&cv_has_work)
    cvDone,     \* clients blocked in pthread_cond_wait(&cv_done)
    wpc,        \* position of each worker thread in tp_worker_main
    wtask,      \* the local `task` of each worker
    cpc,        \* position of each client thread
    carg,       \* the task a client is submitting
    joined,     \* loop index of the pthread_join loop in tp_destroy
    freed,      \* tp_destroy has released the pool
    nsub,       \* number of tp_submit calls made so far (next task identity)
    ret,        \* history: result of the tp_submit call of each task
    starts,     \* history: how often each task was dequeued
    execs,      \* history: how often each task's function ran to its end
    waitLog,    \* history: per returned tp_wait, the tasks accepted until then
    pendingAtStop, \* history: q_count + active when tp_destroy set stop
    comp_alg,   \* cfg->comp_alg
    chunk_bytes, \* cfg->chunk_bytes (CH)
    in_buf,     \* the buffer handed to compress_chunked
    tasks,      \* the ChunkTask array of compress_chunked_parallel
    doneOrder,  \* history: block ids in the order compress_chunk_worker ended
    phase,      \* position of the caller of compress / decompress
    comp,       \* return code and buffer of the compress call
    dec,        \* return code and buffer of the decompress call
    lzw,        \* locals of the lzw_compress / lzw_decompress call in progress
                \* (k: number of codes read so far)
    hp          \* locals of the hp_compress_buffer / hp_decompress_buffer call
                \* in progress

vars == <<mode, nthreads, queue, q_cap, stop, active, mtx, cvHasWork, cvDone,
          wpc, wtask, cpc, carg, joined, freed, nsub, ret, starts, execs,
          waitLog, pendingAtStop, comp_alg, chunk_bytes, in_buf, tasks,
          doneOrder, phase, comp, dec, lzw, hp>>

chunkVars == <<comp_alg, chunk_bytes, in_buf, tasks, doneOrder, phase, comp,
               dec, lzw, hp>>

poolVars == <<nthreads, queue, q_cap, stop, active, mtx, cvHasWork, cvDone,
              wpc, wtask, joined, freed>>

(* ------------------------------ threads ------------------------------- *)
MaxOf(a, b) == IF a > b THEN a ELSE b
WorkerIds == 1..MaxOf(MaxOf(NWorkers, BurstWorkers), ParWorkers)
Workers == 1..nthreads
Clients == 1..2
IsMain(c) == c = 1
ActiveClients ==
    IF mode \in {"pool2", "live"} THEN Clients
    ELSE {c \in Clients : IsMain(c)}

Free == [k |-> "free", i |-> 0]
ByWorker(w) == [k |-> "worker", i |-> w]
ByClient(c) == [k |-> "client", i |-> c]

\* line 1100: n_chunks of the buffer being compressed
n_chunks == NChunks(Len(in_buf), chunk_bytes)

SubmitLimit ==
    CASE mode = "burst" -> BurstTasks
      [] mode = "par" -> n_chunks
      [] mode = "live" -> LiveTasks
      [] OTHER -> MaxTasks
WaitLimit ==
    CASE mode = "par" -> 1
      [] mode = "live" -> LiveWaits
      [] OTHER -> MaxWaits
\* the fewest blocks with which tp_submit can find the queue full
ParBurstLen == InitQCap + 1
TaskIds ==
    0..(MaxOf(MaxOf(MaxOf(BurstTasks, MaxTasks), ParLen), ParBurstLen) - 1)
NoTask == 0 - 1

q_count == Len(queue)
Accepted == {t \in TaskIds : ret[t] = "ok"}

(* --------------------------- tp_create -------------------------------- *)
\* nthreads == 0 is replaced by 1; the queue starts empty with q_cap 16;
\* every worker thread starts at the top of tp_worker_main.
tp_create_nthreads(n) == IF n = 0 THEN 1 ELSE n

PoolCreated(n) ==
    /\ nthreads = tp_create_nthreads(n)
    /\ queue = <<>>
    /\ q_cap = InitQCap
    /\ stop = FALSE
    /\ active = 0
    /\ mtx = Free
    /\ cvHasWork = {}
    /\ cvDone = {}
    /\ wpc = [w \in WorkerIds |->
                IF w <= tp_create_nthreads(n) THEN "w_lock" ELSE "absent"]
    /\ wtask = [w \in WorkerIds |-> NoTask]
    /\ joined = 0
    /\ freed = FALSE

\* no call on the pool has been made yet
NoCallYet ==
    /\ cpc = [c \in Clients |-> "idle"]
    /\ carg = [c \in Clients |-> NoTask]
    /\ nsub = 0
    /\ ret = [t \in TaskIds |-> "none"]
    /\ starts = [t \in TaskIds |-> 0]
    /\ execs = [t \in TaskIds |-> 0]
    /\ waitLog = <<>>
    /\ pendingAtStop = NoTask

\* no compress or decompress call has been made yet
NoResult == [rc |-> 0, out |-> <<>>, ub |-> FALSE, more |-> 0]
NoDecResult == [rc |-> 0, out |-> <<>>, ub |-> FALSE, more |-> 0,
                handed |-> <<>>]
\* no lzw_compress or lzw_decompress call is followed step by step
LzwIdle == [pc |-> "idle"]
HpIdle == [pc |-> "idle"]
NoCodecCallYet ==
    /\ doneOrder = <<>>
    /\ comp = NoResult
    /\ dec = NoDecResult
    /\ lzw = LzwIdle
    /\ hp = HpIdle

\* the pool on its own: the tasks are opaque functions, no buffer is involved
Init ==
    /\ mode \in {"pool2", "burst"}
    /\ \E n \in 0..(IF mode = "burst" THEN BurstWorkers ELSE NWorkers) :
          PoolCreated(n)
    /\ NoCallYet
    /\ comp_alg = "RLEVAR"
    /\ chunk_bytes = 1
    /\ in_buf = <<>>
    /\ tasks = <<>>
    /\ phase = "pool"
    /\ NoCodecCallYet

(* ------------------------- tp_worker_main ----------------------------- *)
\* line 59: while (!tp->stop && tp->q_count == 0) pthread_cond_wait(...)
WorkerMustWait == ~stop /\ q_count = 0
\* line 62: if (tp->stop && tp->q_count == 0) break
WorkerMustExitOnStop == stop
WorkerMustExit == stop /\ q_count = 0
\* line 66: TPTask task = tp->queue[0]
QueueFrontLast(q) == q[Len(q)]
QueueFront(q) == q[1]
\* lines 67-68: memmove(queue, queue + 1, ...); q_count--
QueuePopKeep(q) == q
QueuePop(q) == SubSeq(q, 2, Len(q))

\* line 58 / line 60 on wake-up: take tp->mtx
w_lock(w) ==
    /\ wpc[w] = "w_lock"
    /\ mtx = Free
    /\ mtx' = ByWorker(w)
    /\ wpc' = [wpc EXCEPT ![w] = "w_check"]
    /\ UNCHANGED <<mode, nthreads, queue, q_cap, stop, active, cvHasWork,
                   cvDone, wtask, cpc, carg, joined, freed, nsub, ret,
                   starts, execs,
                   waitLog, pendingAtStop,
                   chunkVars>>

\* line 70: pthread_mutex_unlock(&tp->mtx) after the dequeue, before line 72
MutexKeptByWorker(w) == ByWorker(w)
MutexAfterDequeue(w) == Free

\* lines 59-70 with the mutex held: wait, exit, or dequeue one task
w_check(w) ==
    /\ wpc[w] = "w_check"
    /\ mtx = ByWorker(w)
    /\ IF WorkerMustWait
         THEN /\ cvHasWork' = cvHasWork \cup {w}
              /\ wpc' = [wpc EXCEPT ![w] = "w_wait"]
              /\ mtx' = Free
              /\ UNCHANGED <<queue, active, wtask, starts>>
         ELSE IF WorkerMustExit
           THEN /\ wpc' = [wpc EXCEPT ![w] = "w_stopped"]
                /\ mtx' = Free
                /\ UNCHANGED <<queue, active, wtask, cvHasWork, starts>>
           ELSE /\ wtask' = [wtask EXCEPT ![w] = QueueFront(queue)]
                /\ mtx' = MutexAfterDequeue(w)
                /\ queue' = QueuePop(queue)
                /\ active' = active + 1
                /\ wpc' = [wpc EXCEPT ![w] = "w_run"]
                /\ starts' = [starts EXCEPT ![QueueFront(queue)] = @ + 1]
                /\ UNCHANGED cvHasWork
    /\ UNCHANGED <<mode, nthreads, q_cap, stop, cvDone, cpc, carg, joined,
                   freed, nsub, ret, execs,
                   waitLog, pendingAtStop,
                   chunkVars>>

\* main.c line 1121: the argument of task i is &tasks[i], so the worker
\* stores its result in the slot of its own block
ResultSlotByCompletion(t) == Len(doneOrder)
ResultSlotShared(t) == 0
ResultSlot(t) == t

\* line 72: task.fn(task.arg), outside the mutex.  In compress_chunked_parallel
\* the function is compress_chunk_worker on the block of the task.
w_run(w) ==
    /\ wpc[w] = "w_run"
    /\ execs' = [execs EXCEPT ![wtask[w]] = @ + 1]
    /\ wpc' = [wpc EXCEPT ![w] = "w_lock2"]
    /\ IF mode = "par"
         THEN /\ tasks' = [tasks EXCEPT ![ResultSlot(wtask[w])] =
                             compress_chunk_worker(comp_alg,
                                 Chunk(in_buf, wtask[w], chunk_bytes))]
              /\ doneOrder' = Append(doneOrder, wtask[w])
         ELSE UNCHANGED <<tasks, doneOrder>>
    /\ UNCHANGED <<mode, nthreads, queue, q_cap, stop, active, mtx, cvHasWork,
                   cvDone, wtask, cpc, carg, joined, freed, nsub, ret, starts,
                   waitLog, pendingAtStop, comp_alg, chunk_bytes, in_buf,
                   phase, comp, dec,
                   lzw, hp>>

\* line 74: take tp->mtx after the task
w_lock2(w) ==
    /\ wpc[w] = "w_lock2"
    /\ mtx = Free
    /\ mtx' = ByWorker(w)
    /\ wpc' = [wpc EXCEPT ![w] = "w_finish"]
    /\ UNCHANGED <<mode, nthreads, queue, q_cap, stop, active, cvHasWork,
                   cvDone, wtask, cpc, carg, joined, freed, nsub, ret,
                   starts, execs,
                   waitLog, pendingAtStop,
                   chunkVars>>

\* line 76: if (tp->q_count == 0 && tp->active == 0) broadcast(cv_done),
\* evaluated on the values after active--
DoneBroadcastNever(q, a) == FALSE
DoneBroadcastAlways(q, a) == TRUE
DoneBroadcastDue(q, a) == Len(q) = 0 /\ a = 0

\* lines 75-79: active--, broadcast cv_done when nothing is left, unlock
w_finish(w) ==
    /\ wpc[w] = "w_finish"
    /\ mtx = ByWorker(w)
    /\ mtx' = Free
    /\ active' = active - 1
    /\ IF DoneBroadcastDue(queue, active - 1)
         THEN /\ cvDone' = {}
              /\ cpc' = [c \in Clients |->
                           IF c \in cvDone THEN "wt_lock" ELSE cpc[c]]
         ELSE UNCHANGED <<cvDone, cpc>>
    /\ wpc' = [wpc EXCEPT ![w] = "w_lock"]
    /\ wtask' = [wtask EXCEPT ![w] = NoTask]
    /\ UNCHANGED <<mode, nthreads, queue, q_cap, stop, cvHasWork, carg,
                   joined, freed, nsub, ret, starts, execs,
                   waitLog, pendingAtStop,
                   chunkVars>>

\* pthread_cond_wait may return without a signal (spurious wake-up)
w_spurious(w) ==
    /\ w \in cvHasWork
    /\ cvHasWork' = cvHasWork \ {w}
    /\ wpc' = [wpc EXCEPT ![w] = "w_lock"]
    /\ UNCHANGED <<mode, nthreads, queue, q_cap, stop, active, mtx, cvDone,
                   wtask, cpc, carg, joined, freed, nsub, ret, starts, execs,
                   waitLog, pendingAtStop,
                   chunkVars>>

(* ----------------------------- tp_submit ------------------------------ *)
\* A client may call into the pool while tp_destroy has not released it.
MayCall(c) == c \in ActiveClients /\ cpc[c] = "idle" /\ ~freed

\* In "burst" and "par" mode the client is the caller of main.c (lines
\* 1008-1012 and 1114-1125): it submits every task, then calls tp_wait
\* once, then tp_destroy.
BurstSubmitted == mode \in {"burst", "par"} => nsub = SubmitLimit
\* main.c lines 1124-1125: tp_destroy follows tp_wait
WaitedFirst == mode = "par" => Len(waitLog) = 1

\* the call, up to and including line 124: take tp->mtx.  The task handed
\* over is identified by the number of the call.
tp_submit_lock(c) ==
    /\ MayCall(c)
    /\ nsub < SubmitLimit
    /\ mtx = Free
    /\ mtx' = ByClient(c)
    /\ carg' = [carg EXCEPT ![c] = nsub]
    /\ nsub' = nsub + 1
    /\ cpc' = [cpc EXCEPT ![c] = "s_body"]
    /\ UNCHANGED <<mode, nthreads, queue, q_cap, stop, active, cvHasWork,
                   cvDone, wpc, wtask, joined, freed, ret, starts, execs,
                   waitLog, pendingAtStop,
                   chunkVars>>

\* line 126: if (tp->stop) return -1
SubmitRejectedNever == FALSE
SubmitRejected == stop
\* lines 142-144: queue[q_count] = task; q_count++
QueuePush(q, t) == Append(q, t)

\* lines 126-148 with the mutex held; realloc may fail when the queue is full
tp_submit_body(c) ==
    /\ cpc[c] = "s_body"
    /\ mtx = ByClient(c)
    /\ mtx' = Free
    /\ cpc' = [cpc EXCEPT ![c] = "idle"]
    /\ carg' = [carg EXCEPT ![c] = NoTask]
    /\ \/ /\ SubmitRejected
          /\ ret' = [ret EXCEPT ![carg[c]] = "rejected"]
          /\ UNCHANGED <<queue, q_cap, cvHasWork, wpc>>
       \/ /\ ~SubmitRejected
          /\ q_count = q_cap
          /\ ret' = [ret EXCEPT ![carg[c]] = "nomem"]
          /\ UNCHANGED <<queue, q_cap, cvHasWork, wpc>>
       \/ /\ ~SubmitRejected
          /\ q_cap' = IF q_count = q_cap THEN q_cap * 2 ELSE q_cap
          /\ queue' = QueuePush(queue, carg[c])
          /\ ret' = [ret EXCEPT ![carg[c]] = "ok"]
          /\ \/ /\ cvHasWork = {}
                /\ UNCHANGED <<cvHasWork, wpc>>
             \/ \E w \in cvHasWork :
                  /\ cvHasWork' = cvHasWork \ {w}
                  /\ wpc' = [wpc EXCEPT ![w] = "w_lock"]
    /\ UNCHANGED <<mode, nthreads, stop, active, cvDone, wtask, joined, freed,
                   nsub, starts, execs,
                   waitLog, pendingAtStop,
                   chunkVars>>

(* ------------------------------ tp_wait ------------------------------- *)
\* the call up to line 154, or line 156 on wake-up: take tp->mtx
tp_wait_lock(c) ==
    /\ (MayCall(c) /\ BurstSubmitted /\ Len(waitLog) < WaitLimit)
         \/ cpc[c] = "wt_lock"
    /\ mtx = Free
    /\ mtx' = ByClient(c)
    /\ cpc' = [cpc EXCEPT ![c] = "wt_check"]
    /\ UNCHANGED <<mode, nthreads, queue, q_cap, stop, active, cvHasWork,
                   cvDone, wpc, wtask, carg, joined, freed, nsub, ret, starts,
                   execs,
                   waitLog, pendingAtStop,
                   chunkVars>>

\* line 155: while (tp->q_count > 0 || tp->active > 0)
WaitMustBlockQueueOnly == q_count > 0
WaitMustBlockAlways == TRUE
WaitMustBlock == q_count > 0 \/ active > 0

\* lines 155-158 with the mutex held: block on cv_done, or unlock and return
tp_wait_check(c) ==
    /\ cpc[c] = "wt_check"
    /\ mtx = ByClient(c)
    /\ mtx' = Free
    /\ IF WaitMustBlock
         THEN /\ cvDone' = cvDone \cup {c}
              /\ cpc' = [cpc EXCEPT ![c] = "wt_wait"]
              /\ UNCHANGED waitLog
         ELSE /\ cpc' = [cpc EXCEPT ![c] = "idle"]
              /\ waitLog' = Append(waitLog, Cardinality(Accepted))
              /\ UNCHANGED cvDone
    /\ UNCHANGED <<mode, nthreads, queue, q_cap, stop, active, cvHasWork, wpc,
                   wtask, carg, joined, freed, nsub, ret, starts, execs,
                   pendingAtStop,
                   chunkVars>>

c_spurious(c) ==
    /\ c \in cvDone
    /\ cvDone' = cvDone \ {c}
    /\ cpc' = [cpc EXCEPT ![c] = "wt_lock"]
    /\ UNCHANGED <<mode, nthreads, queue, q_cap, stop, active, mtx, cvHasWork,
                   wpc, wtask, carg, joined, freed, nsub, ret, starts, execs,
                   waitLog, pendingAtStop,
                   chunkVars>>

(* ----------------------------- tp_destroy ----------------------------- *)
\* tp_destroy is called once, by the thread that owns the pool.
\* the call up to line 165: take tp->mtx
tp_destroy_lock(c) ==
    /\ MayCall(c)
    /\ BurstSubmitted
    /\ WaitedFirst
    /\ IsMain(c)
    /\ mtx = Free
    /\ mtx' = ByClient(c)
    /\ cpc' = [cpc EXCEPT ![c] = "d_body"]
    /\ UNCHANGED <<mode, nthreads, queue, q_cap, stop, active, cvHasWork,
                   cvDone, wpc, wtask, carg, joined, freed, nsub, ret, starts,
                   execs,
                   waitLog, pendingAtStop,
                   chunkVars>>

\* lines 166-168: stop = 1; broadcast(cv_has_work); unlock
tp_destroy_body(c) ==
    /\ cpc[c] = "d_body"
    /\ mtx = ByClient(c)
    /\ mtx' = Free
    /\ stop' = TRUE
    /\ pendingAtStop' = q_count + active
    /\ cvHasWork' = {}
    /\ wpc' = [w \in WorkerIds |->
                 IF w \in cvHasWork THEN "w_lock" ELSE wpc[w]]
    /\ cpc' = [cpc EXCEPT ![c] = "d_join"]
    /\ UNCHANGED <<mode, nthreads, queue, q_cap, active, cvDone, wtask, carg,
                   joined, freed, nsub, ret, starts, execs,
                   waitLog,
                   chunkVars>>

\* line 171: pthread_join(tp->threads[i]) returns once worker i has exited
JoinReady(i) == wpc[i] = "w_stopped"

\* lines 170-172: one iteration of the join loop
tp_destroy_join(c) ==
    /\ cpc[c] = "d_join"
    /\ joined < nthreads
    /\ JoinReady(joined + 1)
    /\ joined' = joined + 1
    /\ UNCHANGED <<mode, nthreads, queue, q_cap, stop, active, mtx, cvHasWork,
                   cvDone, wpc, wtask, cpc, carg, freed, nsub, ret, starts,
                   execs,
                   waitLog, pendingAtStop,
                   chunkVars>>

\* lines 174-179: release the pool and return.  The caller's obligation that
\* no other thread is inside a call on the pool when it is released is taken
\* as given (releasing it under a running call is a use after free).
tp_destroy_free(c) ==
    /\ cpc[c] = "d_join"
    /\ joined = nthreads
    /\ \A o \in Clients \ {c} : cpc[o] = "idle"
    /\ freed' = TRUE
    /\ cpc' = [cpc EXCEPT ![c] = "destroyed"]
    /\ UNCHANGED <<mode, nthreads, queue, q_cap, stop, active, mtx, cvHasWork,
                   cvDone, wpc, wtask, carg, joined, nsub, ret, starts, execs,
                   waitLog, pendingAtStop,
                   chunkVars>>

(* --------------------------- specification ---------------------------- *)
WorkerStep ==
    \E w \in WorkerIds :
        \/ w_lock(w)
        \/ w_check(w)
        \/ w_run(w)
        \/ w_lock2(w)
        \/ w_finish(w)
        \/ w_spurious(w)

ClientStep ==
    \E c \in Clients :
        \/ tp_submit_lock(c)
        \/ tp_submit_body(c)
        \/ tp_wait_lock(c)
        \/ tp_wait_check(c)
        \/ c_spurious(c)
        \/ tp_destroy_lock(c)
        \/ tp_destroy_body(c)
        \/ tp_destroy_join(c)
        \/ tp_destroy_free(c)

Next == WorkerStep \/ ClientStep

Spec == Init /\ [][Next]_vars

\* Fair scheduling: a thread that can take a step again and again takes one
\* in the end; this covers a thread that asks for the mutex while other
\* threads take and release it, and a task function, which returns (w_run).
\* A thread is at one place of its code at a time, so the fairness of its
\* steps together is the fairness of the step it is at.  Nothing obliges a
\* client to start a call, and no wake-up without a signal is ever due.
tp_wait_relock(c) == cpc[c] = "wt_lock" /\ tp_wait_lock(c)
WorkerRuns(w) ==
    \/ w_lock(w)
    \/ w_check(w)
    \/ w_run(w)
    \/ w_lock2(w)
    \/ w_finish(w)
ClientRuns(c) ==
    \/ tp_submit_body(c)
    \/ tp_wait_relock(c)
    \/ tp_wait_check(c)
    \/ tp_destroy_body(c)
    \/ tp_destroy_join(c)
    \/ tp_destroy_free(c)
\* two client threads and the workers of a pool, as in mode "pool2"
InitLive ==
    /\ mode = "live"
    /\ \E n \in 0..LiveWorkers : PoolCreated(n)
    /\ NoCallYet
    /\ comp_alg = "RLEVAR"
    /\ chunk_bytes = 1
    /\ in_buf = <<>>
    /\ tasks = <<>>
    /\ phase = "pool"
    /\ NoCodecCallYet
SpecLive ==
    /\ InitLive
    /\ [][Next]_vars
    /\ \A w \in WorkerIds : SF_vars(WorkerRuns(w))
    /\ \A c \in Clients : SF_vars(ClientRuns(c))

(* -------------------- compress_chunked_parallel ----------------------- *)
\* lines 1102-1104: the number of worker threads asked of tp_create, from
\* cfg->inner_workers and the hw_threads() of the machine
Wanted(inner_workers, hw, n) ==
    LET w0 == IF inner_workers > 1 THEN inner_workers ELSE hw
        w1 == IF w0 > n THEN n ELSE w0 IN
    IF w1 < 1 THEN 1 ELSE w1

\* a buffer of n bytes, no two of them equal
ParInput(n) == [i \in 1..n |-> 64 + i]

\* lines 1094-1111: compress_chunked calls with in_len > CH (line 246); the
\* pool is created and the task array is zeroed
InitPar ==
    /\ mode = "par"
    /\ comp_alg \in CompAlgs
    /\ chunk_bytes \in 1..ParChunk
    /\ \E len \in (chunk_bytes + 1)..ParLen : in_buf = ParInput(len)
    /\ \E inner_workers \in 0..ParWorkers, hw \in 1..ParWorkers :
          PoolCreated(Wanted(inner_workers, hw, n_chunks))
    /\ NoCallYet
    /\ tasks = [i \in 0..(n_chunks - 1) |-> EmptySlot]
    /\ phase = "par"
    /\ NoCodecCallYet

\* lines 1127-1148, after tp_destroy has returned: check the error flags,
\* concatenate the blocks, return
par_gather ==
    /\ mode = "par"
    /\ phase = "par"
    /\ \E c \in Clients : IsMain(c) /\ cpc[c] = "destroyed"
    /\ comp' = ParGather(tasks, n_chunks)
    /\ phase' = "gathered"
    /\ UNCHANGED <<mode, nthreads, queue, q_cap, stop, active, mtx, cvHasWork,
                   cvDone, wpc, wtask, cpc, carg, joined, freed, nsub, ret,
                   starts, execs, waitLog, pendingAtStop, comp_alg,
                   chunk_bytes, in_buf, tasks, doneOrder, dec,
                   lzw, hp>>

NextPar == WorkerStep \/ ClientStep \/ par_gather

SpecPar == InitPar /\ [][NextPar]_vars

\* compress_chunked_parallel on a buffer of more blocks than the queue
\* holds at first, with one worker thread (inner_workers <= 1 on a machine
\* of one hardware thread)
InitParBurst ==
    /\ mode = "par"
    /\ comp_alg = "RLEVAR"
    /\ chunk_bytes = 1
    /\ in_buf = ParInput(ParBurstLen)
    /\ PoolCreated(Wanted(0, 1, n_chunks))
    /\ NoCallYet
    /\ tasks = [i \in 0..(n_chunks - 1) |-> EmptySlot]
    /\ phase = "par"
    /\ NoCodecCallYet

SpecParBurst == InitParBurst /\ [][NextPar]_vars

(* ------------------ compress, then decompress ------------------------- *)
\* the 30-byte buffer of ten 'A', ten 'B', ten 'C'
Example30 ==
    Repeat(65, ExampleRun) \o Repeat(66, ExampleRun) \o Repeat(67, ExampleRun)

CodecBytes == {0, 65, 66, 255}
CodecInputs == UNION {[1..n -> CodecBytes] : n \in 1..MaxLen}

\* no pool exists outside compress_chunked_parallel
NoPool ==
    /\ nthreads = 0
    /\ queue = <<>>
    /\ q_cap = 0
    /\ stop = FALSE
    /\ active = 0
    /\ mtx = Free
    /\ cvHasWork = {}
    /\ cvDone = {}
    /\ wpc = [w \in WorkerIds |-> "absent"]
    /\ wtask = [w \in WorkerIds |-> NoTask]
    /\ joined = 0
    /\ freed = TRUE

InitCodec ==
    /\ mode = "codec"
    /\ NoPool
    /\ NoCallYet
    /\ \/ /\ comp_alg \in CompAlgs
          /\ chunk_bytes \in 1..MaxChunk
          /\ in_buf \in CodecInputs
       \/ /\ comp_alg = "LZW"
          /\ chunk_bytes = ExampleRun
          /\ in_buf = Example30
    /\ tasks = <<>>
    /\ phase = "input"
    /\ NoCodecCallYet

\* compress_chunked (lines 239-314) on in_buf
do_compress ==
    /\ mode = "codec"
    /\ phase = "input"
    /\ comp' = compress_chunked(comp_alg, in_buf, chunk_bytes)
    /\ phase' = "compressed"
    /\ UNCHANGED <<mode, poolVars, cpc, carg, nsub, ret, starts, execs,
                   waitLog, pendingAtStop, comp_alg, chunk_bytes, in_buf,
                   tasks, doneOrder, dec,
                   lzw, hp>>

\* decompress_chunked (lines 317-359) on the buffer compress returned, with
\* the same cfg.  A call that dereferences NULL (huffman_predictor.c line
\* 261 on a node without children read from the slice) has undefined
\* behaviour: it may end the process, or return either code with the bytes
\* decoded so far.
do_decompress ==
    /\ mode = "codec"
    /\ phase = "compressed"
    /\ comp.rc = 0
    /\ LET d == decompress_chunked(comp_alg, comp.out, chunk_bytes) IN
       IF d.ub
         THEN \/ dec' = d /\ phase' = "crashed"
              \/ \E rc \in {0, 0 - 1} :
                    dec' = [d EXCEPT !.rc = rc] /\ phase' = "decompressed"
         ELSE dec' = d /\ phase' = "decompressed"
    /\ UNCHANGED <<mode, poolVars, cpc, carg, nsub, ret, starts, execs,
                   waitLog, pendingAtStop, comp_alg, chunk_bytes, in_buf,
                   tasks, doneOrder, comp,
                   lzw, hp>>

NextCodec == do_compress \/ do_decompress

SpecCodec == InitCodec /\ [][NextCodec]_vars


(* ------------------- error paths of the chunk layer ------------------- *)
\* The error paths of compress_chunked, compress_chunked_parallel and
\* decompress_chunked.  The codecs fail in compress only when an allocation
\* fails (rle_var.c line 58, lzw.c lines 82 and 117, main.c lines 1080 and
\* 1085) or when cfg->comp_alg is none of the four chunk codecs (the default
\* branches of main.c lines 293 and 1089, reached with -c delta16-lzw on a
\* file that is not a WAV file, lines 415-454).  The pool runs every task of
\* compress_chunked_parallel once, in some order, before tp_wait returns.
FailLen == 3
FailChunk == 2
FailBytes == {0, 1, 65}
FailAlgs == CompAlgs \cup {"DELTA16_LZW"}
FailInputs == UNION {[1..n -> FailBytes] : n \in 0..FailLen}

\* compress_chunk_worker when the codec (or malloc at lines 1080, 1085)
\* returns -1 without an output buffer
FailedSlot == [err |-> 0 - 1, out |-> <<>>, out_len |-> 0]
\* lines 1129-1130 and 1146-1147: free(tasks[j].out) for every j
ReleaseSlots(ts) == [i \in DOMAIN ts |-> [ts[i] EXCEPT !.out = <<>>]]

InitFail ==
    /\ mode = "fail"
    /\ NoPool
    /\ NoCallYet
    /\ comp_alg \in FailAlgs
    /\ chunk_bytes \in 1..FailChunk
    /\ in_buf \in FailInputs
    /\ phase \in {"input", "packed"}
    /\ tasks = IF phase = "input" /\ Len(in_buf) > chunk_bytes
                 THEN [i \in 0..(n_chunks - 1) |-> EmptySlot] ELSE <<>>
    /\ NoCodecCallYet

TaskHasRun(i) == \E k \in 1..Len(doneOrder) : doneOrder[k] = i

\* compress_chunk_worker (lines 1070-1092) on block i, run once by a worker
\* of the pool; an allocation inside may fail
fail_task(i) ==
    /\ mode = "fail"
    /\ phase = "input"
    /\ Len(in_buf) > chunk_bytes
    /\ i \in 0..(n_chunks - 1)
    /\ ~TaskHasRun(i)
    /\ \E nomem \in BOOLEAN :
          tasks' = [tasks EXCEPT ![i] =
                      IF nomem THEN FailedSlot
                      ELSE compress_chunk_worker(comp_alg,
                                                 Chunk(in_buf, i, chunk_bytes))]
    /\ doneOrder' = Append(doneOrder, i)
    /\ UNCHANGED <<mode, poolVars, cpc, carg, nsub, ret, starts, execs,
                   waitLog, pendingAtStop, comp_alg, chunk_bytes, in_buf,
                   phase, comp, dec,
                   lzw, hp>>

\* lines 1127-1148 once every task has run: fail and release every block
\* buffer, or concatenate and release
fail_gather ==
    /\ mode = "fail"
    /\ phase = "input"
    /\ Len(in_buf) > chunk_bytes
    /\ \A i \in 0..(n_chunks - 1) : TaskHasRun(i)
    /\ comp' = ParGather(tasks, n_chunks)
    /\ tasks' = ReleaseSlots(tasks)
    /\ phase' = "compressed"
    /\ UNCHANGED <<mode, poolVars, cpc, carg, nsub, ret, starts, execs,
                   waitLog, pendingAtStop, comp_alg, chunk_bytes, in_buf,
                   doneOrder, dec,
                   lzw, hp>>

\* compress_chunked (lines 239-314) on a buffer of at most one chunk
fail_seq ==
    /\ mode = "fail"
    /\ phase = "input"
    /\ Len(in_buf) <= chunk_bytes
    /\ comp' = compress_chunked(comp_alg, in_buf, chunk_bytes)
    /\ phase' = "compressed"
    /\ UNCHANGED <<mode, poolVars, cpc, carg, nsub, ret, starts, execs,
                   waitLog, pendingAtStop, comp_alg, chunk_bytes, in_buf,
                   tasks, doneOrder, dec,
                   lzw, hp>>

\* decompress_chunked (lines 317-359) on in_buf taken as a compressed file;
\* undefined behaviour as in do_decompress
fail_decompress ==
    /\ mode = "fail"
    /\ phase = "packed"
    /\ LET d == decompress_chunked(comp_alg, in_buf, chunk_bytes) IN
       IF d.ub
         THEN \/ dec' = d /\ phase' = "crashed"
              \/ \E rc \in {0, 0 - 1} :
                    dec' = [d EXCEPT !.rc = rc] /\ phase' = "decompressed"
         ELSE dec' = d /\ phase' = "decompressed"
    /\ UNCHANGED <<mode, poolVars, cpc, carg, nsub, ret, starts, execs,
                   waitLog, pendingAtStop, comp_alg, chunk_bytes, in_buf,
                   tasks, doneOrder, comp,
                   lzw, hp>>

NextFail ==
    \/ \E i \in TaskIds : fail_task(i)
    \/ fail_gather
    \/ fail_seq
    \/ fail_decompress

SpecFail == InitFail /\ [][NextFail]_vars

(* ------------------------- lzw.c, step by step ------------------------ *)
\* lzw_compress and lzw_decompress followed one loop iteration at a time,
\* with the tables next[], prefix[] and suffix[] as the code keeps them.  A
\* table is the function from the indices stored so far to their values;
\* next[] holds -1 everywhere else (line 83), prefix[] and suffix[] are
\* uninitialised everywhere else (lines 147-148).
LzwLen == 7        \* longest enumerated input of lzw_compress
LzwStreamLen == 5  \* longest enumerated input of lzw_decompress
LzwFillRuns == 8   \* runs of the input that fills the dictionary

\* the store t[k] = v
LzwStore(t, k, v) == (k :> v) @@ t
LzwFreshNext == [k \in {} |-> 0 - 1]
NextAt(t, idx) == IF idx \in DOMAIN t THEN t[idx] ELSE 0 - 1
\* line 152
LzwFreshPrefix == [k \in 0..(LzwFirstCode - 1) |-> 0 - 1]
LzwFreshSuffix == [k \in 0..(LzwFirstCode - 1) |-> k]
\* lines 102 and 205: if (next_code < LZW_MAX_CODES)
LzwHasRoomAlways(nc) == TRUE
LzwHasRoom(nc) == nc < LZW_MAX_CODES
\* line 179: if (code < next_code)
LzwIsKnownAlways(code, nc) == TRUE
LzwIsKnown(code, nc) == code < nc

\* lines 55-74
bw_init == [bitbuf |-> 0, bitcount |-> 0, out |-> <<>>]
bw_write(bw, code) ==
    LzwDrain(bw.bitbuf + (code % Pow2(LZW_BIT_WIDTH)) * Pow2(bw.bitcount),
             bw.bitcount + LZW_BIT_WIDTH, bw.out, 8)
bw_flush(bw) == LzwDrain(bw.bitbuf, bw.bitcount, bw.out, 1)

\* lines 127-139
br_init == [pos |-> 0, bitbuf |-> 0, bitcount |-> 0]
RECURSIVE BrFill(_, _)
BrFill(buf, br) ==
    IF br.bitcount < LZW_BIT_WIDTH /\ br.pos < Len(buf)
      THEN BrFill(buf, [pos |-> br.pos + 1,
                        bitbuf |-> br.bitbuf
                                     + buf[br.pos + 1] * Pow2(br.bitcount),
                        bitcount |-> br.bitcount + 8])
      ELSE br
br_read(buf, br) ==
    LET f == BrFill(buf, br) IN
    IF f.bitcount < LZW_BIT_WIDTH
      THEN [ok |-> FALSE, code |-> 0, br |-> f]
      ELSE [ok |-> TRUE,
            code |-> f.bitbuf % Pow2(LZW_BIT_WIDTH),
            br |-> [pos |-> f.pos,
                    bitbuf |-> f.bitbuf \div Pow2(LZW_BIT_WIDTH),
                    bitcount |-> f.bitcount - LZW_BIT_WIDTH]]

\* lines 181-185 and 188-189: push suffix[cur] and follow prefix[cur] until
\* -1; `stray` tells that an index without a stored value was read
RECURSIVE LzwWalk(_, _, _, _)
LzwWalk(prefix, suffix, cur, stack) ==
    IF cur = 0 - 1 THEN [stack |-> stack, stray |-> FALSE]
    ELSE IF cur \notin DOMAIN prefix THEN [stack |-> stack, stray |-> TRUE]
    ELSE LzwWalk(prefix, suffix, prefix[cur], Append(stack, suffix[cur]))

Reverse(s) == [k \in 1..Len(s) |-> s[Len(s) + 1 - k]]

\* a buffer in which nearly every pair of neighbouring bytes is new, so that
\* nearly every byte adds a dictionary entry: a, a+1, a, a+2, a, ..., 255, a
\* for a = 0, 1, ...
FillRun(a) ==
    [k \in 1..(1 + 2 * (255 - a)) |->
        IF k % 2 = 0 THEN a + (k \div 2) ELSE a]
LzwFill == Concat([a \in 1..LzwFillRuns |-> FillRun(a - 1)])
\* the same after a run whose fourth code is the code just created (KwKwK)
LzwKwKwK == <<65, 66, 65, 66, 65, 66, 65>>
LzwFillKwKwK == LzwKwKwK \o LzwFill

LzwInputs ==
    UNION {[1..n -> {65, 66}] : n \in 0..LzwLen} \cup {LzwFill, LzwFillKwKwK}
LzwStreams == UNION {[1..n -> {0, 1, 16, 65}] : n \in 0..LzwStreamLen}

InitLzw ==
    /\ mode = "lzw"
    /\ NoPool
    /\ NoCallYet
    /\ comp_alg = "LZW"
    /\ \/ in_buf \in LzwInputs /\ phase = "input"
       \/ in_buf \in LzwStreams /\ phase = "packed"
    /\ chunk_bytes = MaxOf(1, Len(in_buf))
    /\ tasks = <<>>
    /\ NoCodecCallYet

lzwFrame == <<mode, poolVars, cpc, carg, nsub, ret, starts, execs, waitLog,
              pendingAtStop, comp_alg, chunk_bytes, in_buf, tasks, doneOrder,
              hp>>

\* the buffer lzw_decompress is called on
LzwDirect == phase \in {"packed", "unpacked"}
LzwStream == IF LzwDirect THEN in_buf ELSE comp.out
LzwAfterDecode == IF phase = "packed" THEN "unpacked" ELSE "decompressed"
LzwDecResult(rc, out) ==
    [rc |-> rc, out |-> out, ub |-> FALSE, more |-> 0, handed |-> <<>>]

\* lzw_compress, lines 77-90: reject the empty input, else fresh tables and
\* the first byte as the current code
lzw_enc_start ==
    /\ mode = "lzw"
    /\ phase = "input"
    /\ lzw.pc = "idle"
    /\ IF Len(in_buf) = 0
         THEN /\ comp' = Err
              /\ phase' = "compressed"
              /\ lzw' = [pc |-> "enc_failed"]
         ELSE /\ lzw' = [pc |-> "enc", i |-> 2, code |-> in_buf[1],
                         next |-> LzwFreshNext, next_code |-> LzwFirstCode,
                         bw |-> bw_init]
              /\ UNCHANGED <<comp, phase>>
    /\ UNCHANGED <<lzwFrame, dec>>

\* lines 91-108: one iteration of the loop over the input bytes
LzwEncIter(st, in) ==
    LET c == in[st.i]
        idx == st.code * 256 + c
        nc == NextAt(st.next, idx) IN
    IF nc # 0 - 1
      THEN [st EXCEPT !.code = nc, !.i = @ + 1]
      ELSE [pc |-> "enc",
            i |-> st.i + 1,
            code |-> c,
            next |-> IF LzwHasRoom(st.next_code)
                       THEN LzwStore(st.next, idx, st.next_code)
                       ELSE st.next,
            next_code |-> IF LzwHasRoom(st.next_code)
                            THEN st.next_code + 1
                            ELSE st.next_code,
            bw |-> bw_write(st.bw, st.code)]
\* up to n iterations in a row
RECURSIVE LzwEncRun(_, _, _)
LzwEncRun(st, in, n) ==
    IF n = 0 \/ st.i > Len(in) THEN st
    ELSE LzwEncRun(LzwEncIter(st, in), in, n - 1)

\* n iterations in a row, LzwStride at a time
LzwStride == 24
RECURSIVE LzwEncLeap(_, _, _)
LzwEncLeap(st, in, n) ==
    IF n <= LzwStride THEN LzwEncRun(st, in, n)
    ELSE LzwEncLeap(LzwEncRun(st, in, LzwStride), in, n - LzwStride)
\* The loops are followed in steps of 1, LzwStride or LzwLeap iterations
\* (`done` iterations made, next free code nc, `remain` iterations left):
\* only large steps where that many iterations remain and the dictionary
\* cannot fill up within the step or is full already; single iterations
\* around the point where the dictionary fills up and in short buffers.
LzwLeap == LzwStride * LzwStride
LzwQuiet(done, nc, remain, n) ==
    /\ done % n = 0
    /\ remain >= n
    /\ (nc + n < LZW_MAX_CODES \/ nc = LZW_MAX_CODES)
LzwLeaps(done, nc, remain) ==
    (IF done % LzwLeap = 0 THEN {LzwLeap} ELSE {})
      \cup (IF done % LzwStride = 0 /\ ~LzwQuiet(done, nc, remain, LzwLeap)
              THEN {LzwStride} ELSE {})
      \cup (IF LzwQuiet(done, nc, remain, LzwLeap)
                 \/ LzwQuiet(done, nc, remain, LzwStride)
              THEN {} ELSE {1})

\* lines 91-108: the loop over the input bytes
lzw_enc_step ==
    /\ mode = "lzw"
    /\ lzw.pc = "enc"
    /\ lzw.i <= Len(in_buf)
    /\ \E n \in LzwLeaps(lzw.i - 2, lzw.next_code, Len(in_buf) + 1 - lzw.i) :
          lzw' = LzwEncLeap(lzw, in_buf, n)
    /\ UNCHANGED <<lzwFrame, phase, comp, dec>>

\* lines 110-122: the last code, the flush, the copy to *out.  The table and
\* the counter of the call are kept as enc_next and enc_next_code for
\* comparison with the tables of lzw_decompress.
lzw_enc_finish ==
    /\ mode = "lzw"
    /\ lzw.pc = "enc"
    /\ lzw.i > Len(in_buf)
    /\ comp' = Ok(bw_flush(bw_write(lzw.bw, lzw.code)).out)
    /\ phase' = "compressed"
    /\ lzw' = [pc |-> "enc_done", enc_next |-> lzw.next,
               enc_next_code |-> lzw.next_code]
    /\ UNCHANGED <<lzwFrame, dec>>

\* lzw_decompress, lines 142-170: fresh tables, the first code must be a
\* single byte
lzw_dec_start ==
    /\ mode = "lzw"
    /\ \/ phase = "compressed" /\ lzw.pc = "enc_done"
       \/ phase = "packed" /\ lzw.pc = "idle"
    /\ LET r == br_read(LzwStream, br_init) IN
       IF Len(LzwStream) = 0 \/ ~r.ok \/ r.code >= LzwFirstCode
         THEN /\ dec' = LzwDecResult(0 - 1, <<>>)
              /\ lzw' = [pc |-> "dec_failed",
                         read |-> IF r.ok THEN <<r.code>> ELSE <<>>,
                         next_code |-> LzwFirstCode,
                         enc_next_code |-> IF phase = "packed"
                                             THEN LzwFirstCode
                                             ELSE lzw.enc_next_code]
         ELSE /\ lzw' = [pc |-> "dec", br |-> r.br, k |-> 1,
                         old_code |-> r.code,
                         prefix |-> LzwFreshPrefix, suffix |-> LzwFreshSuffix,
                         next_code |-> LzwFirstCode, out |-> <<r.code>>,
                         enc_next |-> IF phase = "packed" THEN LzwFreshNext
                                      ELSE lzw.enc_next,
                         enc_next_code |-> IF phase = "packed" THEN LzwFirstCode
                                           ELSE lzw.enc_next_code]
              /\ UNCHANGED dec
    /\ phase' = IF lzw'.pc = "dec_failed" THEN LzwAfterDecode ELSE phase
    /\ UNCHANGED <<lzwFrame, comp>>

\* lines 174-213: one iteration of the loop over the codes, a full code
\* being left.  Reading a table entry that was never stored yields an
\* indeterminate value ("dec_stray").  Line 190 fails the call when the
\* previous string is empty.
LzwDecIter(st, stream) ==
    LET r == br_read(stream, st.br)
        code == r.code
        known == LzwIsKnown(code, st.next_code)
        kwkwk == ~known /\ code = st.next_code
        w == LzwWalk(st.prefix, st.suffix,
                     IF known THEN code ELSE st.old_code, <<>>)
        stack == IF known THEN w.stack
                 ELSE Append(w.stack, w.stack[Len(w.stack)])
    IN
    IF (~known /\ ~kwkwk) \/ (kwkwk /\ ~w.stray /\ w.stack = <<>>)
      THEN [pc |-> "dec_failed", read |-> <<code>>,
            next_code |-> st.next_code,
            enc_next_code |-> st.enc_next_code]
    ELSE IF w.stray
      THEN [pc |-> "dec_stray", read |-> <<code>>,
            next_code |-> st.next_code,
            enc_next_code |-> st.enc_next_code]
    ELSE [st EXCEPT
            !.br = r.br,
            !.k = @ + 1,
            !.old_code = code,
            !.out = @ \o Reverse(stack),
            !.prefix = IF LzwHasRoom(st.next_code)
                         THEN LzwStore(@, st.next_code, st.old_code)
                         ELSE @,
            !.suffix = IF LzwHasRoom(st.next_code)
                         THEN LzwStore(@, st.next_code, stack[Len(stack)])
                         ELSE @,
            !.next_code = IF LzwHasRoom(st.next_code) THEN @ + 1 ELSE @]
\* up to n iterations in a row
RECURSIVE LzwDecRun(_, _, _)
LzwDecRun(st, stream, n) ==
    IF n = 0 \/ st.pc # "dec" \/ ~br_read(stream, st.br).ok THEN st
    ELSE LzwDecRun(LzwDecIter(st, stream), stream, n - 1)

RECURSIVE LzwDecLeap(_, _, _)
LzwDecLeap(st, stream, n) ==
    IF n <= LzwStride THEN LzwDecRun(st, stream, n)
    ELSE LzwDecLeap(LzwDecRun(st, stream, LzwStride), stream, n - LzwStride)

\* lines 174-213: the loop over the codes; after a stray read the call may
\* return either code
lzw_dec_step ==
    /\ mode = "lzw"
    /\ lzw.pc = "dec"
    /\ br_read(LzwStream, lzw.br).ok
    /\ \E n \in LzwLeaps(lzw.k - 1, lzw.next_code,
                         ((Len(LzwStream) - lzw.br.pos) * 8)
                            \div LZW_BIT_WIDTH) :
          lzw' = LzwDecLeap(lzw, LzwStream, n)
    /\ IF lzw'.pc = "dec_failed"
         THEN dec' = LzwDecResult(0 - 1, <<>>) /\ phase' = LzwAfterDecode
       ELSE IF lzw'.pc = "dec_stray"
         THEN /\ \E rc \in {0, 0 - 1} : dec' = LzwDecResult(rc, <<>>)
              /\ phase' = LzwAfterDecode
         ELSE UNCHANGED <<dec, phase>>
    /\ UNCHANGED <<lzwFrame, comp>>

\* lines 215-222: no full code is left: copy the bytes to *out
lzw_dec_finish ==
    /\ mode = "lzw"
    /\ lzw.pc = "dec"
    /\ ~br_read(LzwStream, lzw.br).ok
    /\ dec' = LzwDecResult(0, lzw.out)
    /\ phase' = LzwAfterDecode
    /\ lzw' = [pc |-> "dec_done", prefix |-> lzw.prefix,
               suffix |-> lzw.suffix, next_code |-> lzw.next_code,
               enc_next |-> lzw.enc_next,
               enc_next_code |-> lzw.enc_next_code]
    /\ UNCHANGED <<lzwFrame, comp>>

NextLzw ==
    \/ lzw_enc_start
    \/ lzw_enc_step
    \/ lzw_enc_finish
    \/ lzw_dec_start
    \/ lzw_dec_step
    \/ lzw_dec_finish

SpecLzw == InitLzw /\ [][NextLzw]_vars

(* ================= huffman_predictor.c, step by step ================== *)
HpLen == 5         \* longest buffer handed to hp_compress_buffer
HpBytes == {0, 1, 255}
HpInputs == UNION {[1..n -> HpBytes] : n \in 0..HpLen}
\* the compressed buffers, whole or cut after any byte
HpPacked == {hp_compress_buffer(b).out : b \in HpInputs \ {<<>>}}
HpStreams == UNION {{SubSeq(o, 1, k) : k \in 0..Len(o)} : o \in HpPacked}

InitHp ==
    /\ mode = "hp"
    /\ NoPool
    /\ NoCallYet
    /\ comp_alg = "HUFFMANPRED"
    /\ \/ in_buf \in HpInputs /\ phase \in {"input", "buffer"}
       \/ in_buf \in HpStreams /\ phase = "packed"
    /\ chunk_bytes = MaxOf(1, Len(in_buf))
    /\ tasks = <<>>
    /\ NoCodecCallYet

hpFrame == <<mode, poolVars, cpc, carg, nsub, ret, starts, execs, waitLog,
             pendingAtStop, comp_alg, chunk_bytes, in_buf, tasks, doneOrder,
             lzw>>

\* apply_predictor (lines 161-168) on a buffer of its own
hp_apply_predictor ==
    /\ mode = "hp"
    /\ phase = "buffer"
    /\ comp' = Ok(apply_predictor(in_buf))
    /\ phase' = "predicted"
    /\ UNCHANGED <<hpFrame, dec, hp>>

\* undo_predictor (lines 171-178) on the predicted buffer
hp_undo_predictor ==
    /\ mode = "hp"
    /\ phase = "predicted"
    /\ dec' = [NoDecResult EXCEPT !.rc = 0, !.out = undo_predictor(comp.out)]
    /\ phase' = "restored"
    /\ UNCHANGED <<hpFrame, comp, hp>>

\* the buffer hp_decompress_buffer is called on
HpDirect == phase \in {"packed", "unpacked"}
HpStream == IF HpDirect THEN in_buf ELSE comp.out
HpAfterDecode == IF phase = "packed" THEN "unpacked" ELSE "decompressed"

\* hp_compress_buffer, lines 182-194: reject the empty input, else the
\* predicted copy and one leaf per symbol that occurs
hp_enc_start ==
    /\ mode = "hp"
    /\ phase = "input"
    /\ hp.pc = "idle"
    /\ IF Len(in_buf) = 0
         THEN /\ comp' = Err
              /\ phase' = "compressed"
              /\ hp' = [pc |-> "enc_failed"]
         ELSE /\ LET data == apply_predictor(in_buf) IN
                 hp' = [pc |-> "build", data |-> data,
                        nodes |-> HpLeaves(data,
                                           {data[i] : i \in 1..Len(data)})]
              /\ UNCHANGED <<comp, phase>>
    /\ UNCHANGED <<hpFrame, dec>>

\* lines 197-209: one turn of the build loop
hp_merge ==
    /\ mode = "hp"
    /\ hp.pc = "build"
    /\ Len(hp.nodes) > 1
    /\ hp' = [hp EXCEPT !.nodes = HpMerge(hp.nodes)]
    /\ UNCHANGED <<hpFrame, phase, comp, dec>>

\* lines 210-237: the root, the codes, the tree, the length and the codes
\* of the symbols written to the bit writer; `bits` counts the bits handed
\* to bw_write_bit, `written` those it kept
hp_enc_finish ==
    /\ mode = "hp"
    /\ hp.pc = "build"
    /\ Len(hp.nodes) <= 1
    /\ LET root == HpBuild(hp.nodes)
           all == serialize_tree(root) \o BitsMsb(Len(in_buf), 32)
                    \o HpEncode(hp.data, 1, build_codes(root, <<>>))
           kept == BwWritten(all, HpCapacityBits(Len(in_buf))) IN
       /\ comp' = Ok(BytesOfBits(kept))
       /\ hp' = [pc |-> "enc_done", root |-> root, bits |-> Len(all),
                 written |-> Len(kept)]
    /\ phase' = "compressed"
    /\ UNCHANGED <<hpFrame, dec>>

\* the 32 bits of the length; bits past the end of the stream count as 0
\* (the call has failed before it uses them, see HpLenMissing)
HpLenAt(bits, pos) == HpReadLen(bits \o Repeat(0, 32), pos)

\* hp_decompress_buffer, lines 242-257: the tree and the length
hp_dec_start ==
    /\ mode = "hp"
    /\ \/ phase = "compressed" /\ hp.pc = "enc_done"
       \/ phase = "packed" /\ hp.pc = "idle"
    /\ LET bits == BitsOfBytes(HpStream)
           t == deserialize_tree(bits, 1) IN
       IF Len(HpStream) = 0 \/ IsNull(t.node) \/ HpLenMissing(bits, t.pos)
         THEN /\ dec' = [NoDecResult EXCEPT !.rc = 0 - 1]
              /\ hp' = [pc |-> "dec_failed", tree_eof |-> t.eof, cut |-> FALSE]
              /\ phase' = HpAfterDecode
         ELSE /\ hp' = [pc |-> "dec", root |-> t.node, pos |-> t.pos + 32,
                        orig_len |-> HpLenAt(bits, t.pos), out |-> <<>>,
                        tree_eof |-> t.eof, cut |-> FALSE]
              /\ UNCHANGED <<dec, phase>>
    /\ UNCHANGED <<hpFrame, comp>>

\* lines 259-267: one symbol; a walk that steps to a missing child
\* dereferences NULL
hp_dec_symbol ==
    /\ mode = "hp"
    /\ hp.pc = "dec"
    /\ Len(hp.out) < hp.orig_len
    /\ Len(hp.out) < HpMaxOut
    /\ LET w == HpWalk(hp.root, BitsOfBytes(HpStream), hp.pos) IN
       IF w.ub
         THEN /\ hp' = [pc |-> "dec_null", tree_eof |-> hp.tree_eof,
                        cut |-> hp.cut]
              /\ \/ dec' = [NoDecResult EXCEPT !.ub = TRUE]
                    /\ phase' = "crashed"
                 \/ \E rc \in {0, 0 - 1} :
                       /\ dec' = [NoDecResult EXCEPT !.rc = rc, !.ub = TRUE]
                       /\ phase' = HpAfterDecode
         ELSE /\ hp' = [hp EXCEPT !.pos = w.pos, !.out = Append(@, w.sym),
                                  !.cut = @ \/ w.cut]
              /\ UNCHANGED <<dec, phase>>
    /\ UNCHANGED <<hpFrame, comp>>

\* lines 269-274: the predictor undone, the buffer handed over
hp_dec_finish ==
    /\ mode = "hp"
    /\ hp.pc = "dec"
    /\ Len(hp.out) = hp.orig_len \/ Len(hp.out) >= HpMaxOut
    /\ dec' = [NoDecResult EXCEPT !.rc = 0, !.out = undo_predictor(hp.out),
                                  !.more = hp.orig_len - Len(hp.out)]
    /\ phase' = HpAfterDecode
    /\ hp' = [pc |-> "dec_done", tree_eof |-> hp.tree_eof, cut |-> hp.cut]
    /\ UNCHANGED <<hpFrame, comp>>

NextHp ==
    \/ hp_apply_predictor
    \/ hp_undo_predictor
    \/ hp_enc_start
    \/ hp_merge
    \/ hp_enc_finish
    \/ hp_dec_start
    \/ hp_dec_symbol
    \/ hp_dec_finish

SpecHp == InitHp /\ [][NextHp]_vars

(* ======================= claims on the thread pool ===================== *)
Occurrences(q, t) == Cardinality({i \in 1..Len(q) : q[i] = t})
WState(w) ==
    IF wpc[w] = "w_stopped" THEN "Stopped"
    ELSE IF wpc[w] \in {"w_run", "w_lock2", "w_finish"} THEN "Running"
    ELSE "WaitingForWork"
WStateNext(w) ==
    IF wpc'[w] = "w_stopped" THEN "Stopped"
    ELSE IF wpc'[w] \in {"w_run", "w_lock2", "w_finish"} THEN "Running"
    ELSE "WaitingForWork"

\* C2: tp_wait is a complete barrier.  In the step in which a tp_wait call
\* returns (its check of line 155 fails and it unlocks), the queue is empty,
\* the in-flight count is zero, no worker is inside a task, and every task
\* accepted so far (so every task accepted before the call) has run to its
\* end; this holds for every tp_wait of a run, cycle after cycle.
WaitReturns(c) == cpc[c] = "wt_check" /\ cpc'[c] = "idle"
C2_WaitIsBarrier ==
    [][\A c \in Clients :
         WaitReturns(c) =>
            /\ queue' = <<>>
            /\ active' = 0
            /\ \A w \in Workers : WStateNext(w) # "Running"
            /\ \A t \in Accepted : execs'[t] >= 1]_vars

\* two successive cycles: a burst, a tp_wait that returned, a second burst,
\* a second tp_wait that returned
C2_Witness ==
    /\ Len(waitLog) = 2
    /\ waitLog[1] >= 1
    /\ waitLog[2] > waitLog[1]

\* C3: no accepted task is dropped or duplicated.  Every task is dequeued
\* and run at most once; an accepted task is either still queued (once), or
\* held by exactly one worker that is running it, or finished; and once
\* tp_destroy has returned every accepted task has run exactly once.
C3_NoDropNoDup ==
    \A t \in TaskIds :
        /\ starts[t] <= 1
        /\ execs[t] <= starts[t]
        /\ ret[t] = "ok" => Occurrences(queue, t) + starts[t] = 1
        /\ ret[t] # "ok" => Occurrences(queue, t) = 0 /\ starts[t] = 0
        /\ (starts[t] = 1 /\ execs[t] = 0) =>
              Cardinality({w \in Workers :
                             wpc[w] = "w_run" /\ wtask[w] = t}) = 1
        /\ (freed /\ ret[t] = "ok") => execs[t] = 1

\* tp_destroy set stop while two or more tasks were queued or running, and
\* has returned
C3_Witness ==
    /\ freed
    /\ pendingAtStop >= 2
    /\ Cardinality(Accepted) >= 2

\* C8: a tp_submit that finds stop set returns -1 and leaves the queue and
\* the in-flight count as they are, and its task is never queued or run.
SubmitReturns(c) == cpc[c] = "s_body" /\ cpc'[c] = "idle"
C8_SubmitAfterStopRejected ==
    /\ [](\A t \in TaskIds :
             ret[t] = "rejected" =>
                Occurrences(queue, t) = 0 /\ starts[t] = 0 /\ execs[t] = 0)
    /\ [][\A c \in Clients :
            (SubmitReturns(c) /\ stop) =>
               /\ ret'[carg[c]] = "rejected"
               /\ queue' = queue
               /\ active' = active]_vars

\* a submit was rejected during shutdown while another task was accepted
\* and has run
C8_Witness ==
    /\ \E t \in TaskIds : ret[t] = "rejected"
    /\ \E t \in TaskIds : ret[t] = "ok" /\ execs[t] = 1

\* C9: tasks are dequeued in FIFO order.  Task identities are the order in
\* which the tp_submit calls took the mutex, so a call that returned before
\* another began has the smaller identity.  Whenever a worker dequeues a
\* task, every accepted task with a smaller identity has been dequeued.
Dequeued == {t \in TaskIds : starts'[t] > starts[t]}
C9_FifoDequeue ==
    [][\A t \in Dequeued :
          \A u \in Accepted : u < t => starts[u] >= 1]_vars

\* the queue has grown beyond its initial capacity and the task queued
\* behind the initial capacity has been dequeued
C9_Witness ==
    /\ q_cap > InitQCap
    /\ starts[InitQCap] = 1

\* C10: each worker only moves WaitingForWork -> Running -> WaitingForWork
\* and WaitingForWork -> Stopped; it takes one task when it starts running
\* and holds none before; it stops only with stop set and the queue empty;
\* and a stopped worker stays stopped and holds no task.
C10_WorkerStateMachine ==
    [][\A w \in Workers :
          /\ WState(w) # WStateNext(w) =>
                <<WState(w), WStateNext(w)>> \in
                    {<<"WaitingForWork", "Running">>,
                     <<"Running", "WaitingForWork">>,
                     <<"WaitingForWork", "Stopped">>}
          /\ (WState(w) # "Running" /\ WStateNext(w) = "Running") =>
                /\ wtask[w] = NoTask
                /\ wtask'[w] # NoTask
                /\ Len(queue') = Len(queue) - 1
          /\ (WState(w) # "Stopped" /\ WStateNext(w) = "Stopped") =>
                stop /\ queue = <<>>
          /\ WState(w) = "Stopped" =>
                WStateNext(w) = "Stopped" /\ wtask'[w] = NoTask]_vars

\* the only worker of a pool has run a task and then stopped
C10_Witness ==
    /\ nthreads = 1
    /\ wpc[1] = "w_stopped"
    /\ \E t \in TaskIds : execs[t] = 1

(* ------------------------- claims: chunk layer ------------------------ *)
\* lines 1115-1121 and 1070-1092: the compressed block of chunk i (from 0)
BlockOf(i) == CompressChunk(comp_alg, Chunk(in_buf, i, chunk_bytes)).out
BlocksInIndexOrder == Concat([k \in 1..n_chunks |-> BlockOf(k - 1)])
DecompressReturned == phase \in {"decompressed", "crashed"}

\* C1: for every non-empty buffer, each of the four codecs and every chunk
\* size, below and above the length of the buffer, compress succeeds and
\* decompress of its output with the same codec and chunk size succeeds
\* and returns exactly the buffer.
C1_RoundTrip ==
    /\ phase = "compressed" => comp.rc = 0
    /\ DecompressReturned =>
          /\ phase = "decompressed"
          /\ dec.rc = 0
          /\ dec.more = 0
          /\ dec.out = in_buf

\* C4: in whatever order the workers finish the blocks, the buffer that
\* compress_chunked_parallel returns is the concatenation of the compressed
\* blocks in block-index order 0, 1, ..., n-1.
C4_IndexOrder ==
    phase = "gathered" =>
        /\ comp.rc = 0
        /\ comp.out = BlocksInIndexOrder
        /\ comp = compress_chunked_parallel(comp_alg, in_buf, chunk_bytes)
\* two blocks that differ were finished in the reverse of their index order
C4_Witness ==
    /\ phase = "gathered"
    /\ \E j, k \in 1..Len(doneOrder) :
          /\ j < k
          /\ doneOrder[j] > doneOrder[k]
          /\ BlockOf(doneOrder[j]) # BlockOf(doneOrder[k])

\* C5: when the buffer was compressed as more than one block, every slice
\* that decompress hands to the codec is exactly one compressed block as
\* compress produced it, in order; the compressed buffer is never cut at
\* multiples of the chunk size instead.
C5_SlicesAreBlocks ==
    (DecompressReturned /\ n_chunks > 1) =>
        \A k \in 1..Len(dec.handed) :
            k <= n_chunks /\ dec.handed[k] = BlockOf(k - 1)

\* C6: the 30 bytes of ten 'A', ten 'B', ten 'C' with chunk size 10 and
\* codec LZW are compressed as three blocks, and decompress with the same
\* codec and chunk size returns the same 30 bytes.
C6_Example30RoundTrip ==
    (in_buf = Example30 /\ comp_alg = "LZW" /\ chunk_bytes = ExampleRun) =>
        /\ n_chunks = 3
        /\ phase = "compressed" => comp.rc = 0
        /\ DecompressReturned =>
              phase = "decompressed" /\ dec.rc = 0 /\ dec.out = Example30

\* C7: the output of a compress of more than one block is the block count,
\* then the compressed length of every block, each as a 32-bit
\* little-endian integer, then the bytes of the blocks in order.
C7_ManifestLayout ==
    (phase = "compressed" /\ n_chunks > 1) =>
        /\ comp.rc = 0
        /\ comp.out =
              wr32le(n_chunks)
                \o Concat([k \in 1..n_chunks |-> wr32le(Len(BlockOf(k - 1)))])
                \o BlocksInIndexOrder

(* ------------------------ claims: pool, part 2 ------------------------ *)
\* C11: a tp_wait that takes the mutex while the queue is empty and the
\* in-flight count is zero returns from its check without blocking on the
\* done condition; a tp_wait blocks on the done condition only while a task
\* is queued or in flight.
WaitBlocks(c) == cpc[c] = "wt_check" /\ cpc'[c] = "wt_wait"
C11_WaitOnIdleReturns ==
    [][\A c \in Clients :
          /\ (cpc[c] = "wt_check" /\ queue = <<>> /\ active = 0
                /\ cpc'[c] # "wt_check") =>
                (WaitReturns(c) /\ c \notin cvDone')
          /\ WaitBlocks(c) => (q_count > 0 \/ active > 0)]_vars

\* one client: every task of the burst was accepted, a first tp_wait
\* returned, and a second tp_wait with no submit in between returned too
C11_Witness ==
    /\ mode = "burst"
    /\ Len(waitLog) = 2
    /\ waitLog[1] = BurstTasks
    /\ waitLog[2] = BurstTasks

AllWorkersRunning == \A w \in Workers : wpc[w] = "w_run"
NoClientHoldsMutex == \A c \in Clients : mtx # ByClient(c)

\* C12: a worker that executes a task's function does not hold the pool
\* mutex; while every worker is executing a task the mutex is free unless a
\* client holds it, and a tp_submit that holds it then enqueues its task and
\* returns 0 (pool not stopped, queue not in need of growth) without any
\* task function having finished in between.
C12_SubmitNeverWaitsForTask ==
    [][/\ \A w \in Workers : wpc[w] = "w_run" => mtx # ByWorker(w)
       /\ (AllWorkersRunning /\ NoClientHoldsMutex) => mtx = Free
       /\ \A c \in Clients :
            (/\ AllWorkersRunning
             /\ cpc[c] = "s_body"
             /\ cpc'[c] = "idle"
             /\ ~stop
             /\ q_count < q_cap) =>
                (/\ ret'[carg[c]] = "ok"
                 /\ queue' = QueuePush(queue, carg[c])
                 /\ execs' = execs
                 /\ active' = active)]_vars

\* every worker is inside a task function and a client holds the mutex in
\* tp_submit: it took the mutex after the last worker had started its task
C12_Witness ==
    /\ nthreads = NWorkers
    /\ AllWorkersRunning
    /\ active = NWorkers
    /\ ~stop
    /\ \E c \in Clients : cpc[c] = "s_body" /\ mtx = ByClient(c)

(* --------------------- claims: parallel compression ------------------- *)
\* the workers that are inside compress_chunk_worker on result slot i, and
\* the number of task functions that have stored a result in it
SlotWriters(i) == {w \in Workers : wpc[w] = "w_run" /\ ResultSlot(wtask[w]) = i}
SlotWrites(i) ==
    Cardinality({k \in 1..Len(doneOrder) : ResultSlot(doneOrder[k]) = i})
\* main.c line 1124 has returned: the orchestrator is at or after line 1125
OrchestratorPastWait == Len(waitLog) >= 1

\* C13: during parallel compression no two workers are inside the task
\* function on the same result slot, a slot is never written a second time,
\* and from the return of tp_wait on (so when the orchestrator reads the
\* slots at lines 1127-1148) no worker is inside a task function and every
\* slot has been written exactly once.
C13_NoRaceOnSlots ==
    mode = "par" =>
        /\ \A i \in 0..(n_chunks - 1) :
              /\ Cardinality(SlotWriters(i)) + SlotWrites(i) <= 1
              /\ OrchestratorPastWait =>
                    (SlotWriters(i) = {} /\ SlotWrites(i) = 1)
        /\ phase = "gathered" =>
              /\ OrchestratorPastWait
              /\ \A w \in Workers : wpc[w] = "w_stopped"

\* two workers are inside the task function at once, on different slots,
\* while another slot already holds its result
C13_Witness ==
    /\ mode = "par"
    /\ Len(doneOrder) >= 1
    /\ \E w1, w2 \in Workers :
          /\ w1 # w2
          /\ wpc[w1] = "w_run"
          /\ wpc[w2] = "w_run"
          /\ ResultSlot(wtask[w1]) # ResultSlot(wtask[w2])

(* ------------------------ claims: error handling ---------------------- *)
\* the codec switch reported an error for a block of the compress call
BlockFailed ==
    IF Len(in_buf) > chunk_bytes
      THEN \E i \in 0..(n_chunks - 1) : tasks[i].err # 0
      ELSE Len(in_buf) > 0 /\ CompressChunk(comp_alg, in_buf).rc # 0
\* the codec switch reported an error for a slice of the decompress call
SliceFailed ==
    \E k \in 1..Len(dec.handed) :
        LET r == DecompressChunk(comp_alg, dec.handed[k]) IN
        ~r.ub /\ r.rc # 0

\* C14: when the codec reports an error for a block, compress (in the
\* single-threaded and in the parallel path) and decompress return -1 and
\* hand no output bytes to the caller, whatever the blocks before and after
\* produced, and in the parallel path no block buffer is left allocated.
C14_BlockErrorFailsCall ==
    mode = "fail" =>
        /\ (phase = "compressed" /\ BlockFailed) =>
              /\ comp.rc = 0 - 1
              /\ comp.out = <<>>
              /\ \A i \in DOMAIN tasks : tasks[i].out = <<>>
        /\ (phase = "decompressed" /\ SliceFailed) =>
              /\ dec.rc = 0 - 1
              /\ dec.out = <<>>

\* the parallel path returned after one block had been compressed and
\* another had failed
C14_Witness ==
    /\ mode = "fail"
    /\ phase = "compressed"
    /\ Len(in_buf) > chunk_bytes
    /\ \E i, j \in 0..(n_chunks - 1) :
          /\ tasks[i].err = 0
          /\ tasks[i].out_len > 0
          /\ tasks[j].err # 0
    /\ comp.rc = 0 - 1

(* --------------------------- claims: splitting ------------------------ *)
CeilDiv(a, b) == CHOOSE n \in 0..a : n * b >= a /\ (n - 1) * b < a
MinOf(a, b) == IF a < b THEN a ELSE b
RECURSIVE SumOfSizes(_, _, _)
SumOfSizes(total, ch, n) ==
    IF n = 0 THEN 0
    ELSE ChunkSize(total, n - 1, ch) + SumOfSizes(total, ch, n - 1)

PartLen == 8
\* the numeric part of the claim for a buffer of `total` bytes and chunks of
\* `ch` bytes
IsExactPartition(total, ch) ==
    LET n == NChunks(total, ch)
        off(i) == ChunkOffset(i, ch)
        len(i) == ChunkSize(total, i, ch) IN
    /\ n = CeilDiv(total, ch)
    /\ \A i \in 0..(n - 1) :
          /\ off(i) = i * ch
          /\ len(i) = MinOf(ch, total - i * ch)
          /\ len(i) >= 1
          /\ i < n - 1 => (len(i) = ch /\ off(i) + len(i) = off(i + 1))
          /\ i = n - 1 => off(i) + len(i) = total
    /\ SumOfSizes(total, ch, n) = total

\* C15: for a buffer longer than one chunk, compress_chunked_parallel cuts
\* it into n = ceil(total_len / chunk_size) blocks; block i starts at
\* i * chunk_size and has min(chunk_size, total_len - i * chunk_size) bytes;
\* every block is non-empty, consecutive blocks are adjacent (no overlap, no
\* gap), the lengths add up to total_len, only the last block may be shorter
\* than chunk_size, and the blocks in order are the buffer.  The numeric
\* part is checked for every total_len up to PartLen as well.
C15_ExactPartition ==
    /\ (mode = "par" /\ Len(in_buf) > chunk_bytes) =>
          /\ IsExactPartition(Len(in_buf), chunk_bytes)
          /\ DOMAIN tasks = 0..(n_chunks - 1)
          /\ \A i \in 0..(n_chunks - 1) :
                Chunk(in_buf, i, chunk_bytes) =
                    [k \in 1..ChunkSize(Len(in_buf), i, chunk_bytes) |->
                        in_buf[ChunkOffset(i, chunk_bytes) + k]]
          /\ Concat([k \in 1..n_chunks |-> Chunk(in_buf, k - 1, chunk_bytes)])
                = in_buf
    /\ \A total \in 2..PartLen : \A ch \in 1..(total - 1) :
          IsExactPartition(total, ch)

\* a buffer whose last block is shorter than the chunk size has been
\* compressed block by block
C15_Witness ==
    /\ mode = "par"
    /\ phase = "gathered"
    /\ Len(in_buf) % chunk_bytes # 0
    /\ nsub = n_chunks
    /\ ChunkSize(Len(in_buf), n_chunks - 1, chunk_bytes) < chunk_bytes

(* ---------------------- claims: single-block path --------------------- *)
\* C16: for a buffer of one block (1 <= total_len <= chunk_size)
\* compress_chunked returns without creating a pool or submitting a task,
\* and what it returns, bytes and return code, is what
\* compress_chunked_parallel returns for the same buffer as its only block.
C16_SingleBlockSameAsParallel ==
    (/\ mode = "fail"
     /\ phase = "compressed"
     /\ Len(in_buf) >= 1
     /\ Len(in_buf) <= chunk_bytes) =>
        /\ nthreads = 0
        /\ nsub = 0
        /\ tasks = <<>>
        /\ doneOrder = <<>>
        /\ NChunks(Len(in_buf), chunk_bytes) = 1
        /\ comp.rc =
              compress_chunked_parallel(comp_alg, in_buf, chunk_bytes).rc
        /\ comp.out =
              compress_chunked_parallel(comp_alg, in_buf, chunk_bytes).out

\* a buffer of one block was compressed to bytes that differ from it
C16_Witness ==
    /\ mode = "fail"
    /\ phase = "compressed"
    /\ Len(in_buf) >= 1
    /\ Len(in_buf) <= chunk_bytes
    /\ nthreads = 0
    /\ comp.rc = 0
    /\ comp.out # in_buf

(* ------------------------------ claims: LZW --------------------------- *)
\* the step-by-step calls return what lzw_compress and lzw_decompress above
\* return (compared on the short buffers)
LzwStepwiseAgrees ==
    (mode = "lzw" /\ Len(in_buf) <= LzwLen) =>
        /\ (~LzwDirect /\ phase \in {"compressed", "decompressed"}) =>
              comp = lzw_compress(in_buf)
        /\ (phase \in {"unpacked", "decompressed"}
              /\ lzw.pc \in {"dec_done", "dec_failed"}) =>
              /\ dec.rc = lzw_decompress(LzwStream).rc
              /\ dec.out = lzw_decompress(LzwStream).out

\* the dictionary of the lzw_compress call in progress: next[] holds the
\* codes 256 .. next_code - 1, each once
LzwEncDictOk ==
    lzw.pc = "enc" =>
        /\ lzw.next_code >= LzwFirstCode
        /\ lzw.next_code <= LZW_MAX_CODES
        /\ {lzw.next[idx] : idx \in DOMAIN lzw.next}
              = LzwFirstCode..(lzw.next_code - 1)
        /\ Cardinality(DOMAIN lzw.next) = lzw.next_code - LzwFirstCode
\* the dictionary of the lzw_decompress call in progress: prefix[] and
\* suffix[] are stored for the codes 0 .. next_code - 1, the first 256 being
\* the single bytes, every later one extending an earlier code
LzwDecDictOk ==
    lzw.pc = "dec" =>
        /\ lzw.next_code >= LzwFirstCode
        /\ lzw.next_code <= LZW_MAX_CODES
        /\ DOMAIN lzw.prefix = 0..(lzw.next_code - 1)
        /\ DOMAIN lzw.suffix = 0..(lzw.next_code - 1)
        /\ \A k \in 0..(LzwFirstCode - 1) :
              lzw.prefix[k] = 0 - 1 /\ lzw.suffix[k] = k
        /\ \A k \in LzwFirstCode..(lzw.next_code - 1) :
              lzw.prefix[k] \in 0..(k - 1) /\ lzw.suffix[k] \in 0..255

\* C17: in lzw_compress and in lzw_decompress every call starts from a
\* fresh dictionary (next_code = 256, nothing stored beyond the single
\* bytes), the codes 0..255 denote the single bytes throughout, a step of
\* the loop leaves every stored entry as it is and adds at most the codes
\* next_code, next_code + 1, ... in this order, and next_code never exceeds
\* 4096.
C17_DictionaryInvariant ==
    [][/\ LzwEncDictOk
       /\ LzwDecDictOk
       /\ (lzw.pc # "enc" /\ lzw'.pc = "enc") =>
             (lzw'.next = LzwFreshNext /\ lzw'.next_code = LzwFirstCode)
       /\ (lzw.pc # "dec" /\ lzw'.pc = "dec") =>
             /\ lzw'.prefix = LzwFreshPrefix
             /\ lzw'.suffix = LzwFreshSuffix
             /\ lzw'.next_code = LzwFirstCode
       /\ (lzw.pc = "enc" /\ lzw'.pc = "enc") =>
             /\ lzw'.next_code >= lzw.next_code
             /\ lzw'.next_code <= LZW_MAX_CODES
             /\ \A idx \in DOMAIN lzw.next :
                   idx \in DOMAIN lzw'.next /\ lzw'.next[idx] = lzw.next[idx]
             /\ {lzw'.next[idx] : idx \in DOMAIN lzw'.next \ DOMAIN lzw.next}
                   = lzw.next_code..(lzw'.next_code - 1)
       /\ (lzw.pc = "dec" /\ lzw'.pc = "dec") =>
             /\ lzw'.next_code >= lzw.next_code
             /\ lzw'.next_code <= LZW_MAX_CODES
             /\ DOMAIN lzw'.prefix = 0..(lzw'.next_code - 1)
             /\ DOMAIN lzw'.suffix = 0..(lzw'.next_code - 1)
             /\ \A k \in DOMAIN lzw.prefix :
                   /\ lzw'.prefix[k] = lzw.prefix[k]
                   /\ lzw'.suffix[k] = lzw.suffix[k]]_vars

\* lzw_compress and then lzw_decompress have both filled the dictionary up
\* to code 4095
C17_Witness ==
    /\ mode = "lzw"
    /\ lzw.pc = "dec_done"
    /\ lzw.enc_next_code = LZW_MAX_CODES
    /\ lzw.next_code = LZW_MAX_CODES
    /\ DOMAIN lzw.prefix = 0..(LZW_MAX_CODES - 1)

\* lzw_compress filled the dictionary during the call on in_buf
LzwEncFilled ==
    /\ mode = "lzw"
    /\ ~LzwDirect
    /\ lzw.pc \in {"enc_done", "dec", "dec_done", "dec_failed", "dec_stray"}
    /\ phase \in {"compressed", "decompressed"}
    /\ comp.rc = 0
    /\ lzw.enc_next_code = LZW_MAX_CODES
\* with the dictionary full both calls went on to the end without failing,
\* and lzw_decompress ended with the dictionary lzw_compress ended with
LzwFullInSync ==
    (LzwEncFilled /\ phase = "decompressed") =>
        /\ lzw.pc = "dec_done"
        /\ dec.rc = 0
        /\ lzw.next_code = LZW_MAX_CODES
        /\ \A idx \in DOMAIN lzw.enc_next :
              /\ lzw.prefix[lzw.enc_next[idx]] = idx \div 256
              /\ lzw.suffix[lzw.enc_next[idx]] = idx % 256

\* C18: for a block that fills the dictionary (4096 entries) lzw_compress
\* goes on emitting codes and succeeds, lzw_decompress stops inserting at
\* the same code, and lzw_decompress(lzw_compress(b)) = b.
C18_DictFullRoundTrip ==
    /\ LzwFullInSync
    /\ (LzwEncFilled /\ phase = "decompressed") => dec.out = in_buf

\* the k-th 12-bit code of a stream, least significant bits first
LzwCodeOf(stream, k) ==
    LET o == (LZW_BIT_WIDTH * (k - 1)) \div 8 IN
    IF k % 2 = 1
      THEN stream[o + 1] + (stream[o + 2] % 16) * 256
      ELSE (stream[o + 1] \div 16) + stream[o + 2] * 16
LzwCodeCount(stream) == (8 * Len(stream)) \div LZW_BIT_WIDTH
\* the next free code when the k-th code is read: one entry per code after
\* the first, until the dictionary is full
LzwNextFreeAt(k) == MinOf(LzwFirstCode + (k - 2), LZW_MAX_CODES)
LzwBadCodeAt(stream, k) ==
    IF k = 1 THEN LzwCodeOf(stream, 1) >= LzwFirstCode
    ELSE LzwCodeOf(stream, k) > LzwNextFreeAt(k)
LzwHasBadCode(stream) ==
    \E k \in 1..LzwCodeCount(stream) : LzwBadCodeAt(stream, k)
LzwDecodeOver ==
    /\ mode = "lzw"
    /\ phase \in {"unpacked", "decompressed"}
    /\ lzw.pc # "enc_failed"

\* C19: lzw_decompress returns -1 and no output whenever the stream holds a
\* first code that is not a single byte or a later code greater than the
\* next free code at the moment it is read, and it never reads an entry of
\* prefix[] or suffix[] that was not stored; the next free code of the call
\* is the one counted from the position in the stream.
C19_BadCodeRejected ==
    /\ (mode = "lzw" /\ lzw.pc = "dec")
          => lzw.next_code = LzwNextFreeAt(lzw.k + 1)
    /\ (mode = "lzw") => lzw.pc # "dec_stray"
    /\ (LzwDecodeOver /\ LzwHasBadCode(LzwStream))
          => /\ dec.rc = 0 - 1
             /\ dec.out = <<>>
             /\ lzw.pc = "dec_failed"
C19_Witness ==
    /\ LzwDecodeOver
    /\ LzwCodeCount(LzwStream) >= 3
    /\ ~LzwBadCodeAt(LzwStream, 1)
    /\ LzwCodeOf(LzwStream, 2) = LzwNextFreeAt(2)
    /\ LzwBadCodeAt(LzwStream, 3)
    /\ dec.rc = 0 - 1
    /\ dec.out = <<>>

(* ===================== claims: empty input ============================= *)
\* lzw_compress itself, called on an empty buffer
LzwEmptyRejected ==
    (mode = "lzw" /\ ~LzwDirect /\ Len(in_buf) = 0 /\ phase = "compressed")
        => /\ comp.rc = 0 - 1
           /\ comp.out = <<>>
           /\ lzw.pc = "enc_failed"
EmptyLzwCallDone ==
    /\ mode = "fail"
    /\ comp_alg = "LZW"
    /\ Len(in_buf) = 0
    /\ phase = "compressed"

\* C20: an LZW compression of an empty buffer returns an error, both in
\* lzw_compress itself and in compress_chunked with the LZW algorithm; it
\* never returns success with zero bytes of output.
C20_EmptyInputRejected ==
    /\ LzwEmptyRejected
    /\ EmptyLzwCallDone => comp.rc = 0 - 1

(* ===================== claims: Huffman with predictor ================== *)
HpOneValue(b) == Len(b) > 0 /\ \A i \in 1..Len(b) : b[i] = b[1]
HpOneSymbol(b) ==
    /\ Len(b) > 0
    /\ \A i \in 1..Len(b) : apply_predictor(b)[i] = apply_predictor(b)[1]
HpRoundTripDone == mode = "hp" /\ ~HpDirect /\ phase = "decompressed"

\* C21: for every block of one repeated byte value, of any positive
\* length, and for every block whose predicted symbols are all equal,
\* hp_decompress_buffer on the output of hp_compress_buffer returns 0 and
\* the block itself.
C21_SingleSymbolRoundTrip ==
    (HpRoundTripDone /\ (HpOneValue(in_buf) \/ HpOneSymbol(in_buf)))
        => dec.rc = 0 /\ dec.out = in_buf

HpDecodeOver == mode = "hp" /\ phase \in {"unpacked", "decompressed"}

\* C22: when the bit stream ends while hp_decompress_buffer walks the tree
\* for one of the symbols, the call returns -1; it never returns 0 after a
\* byte was emitted for an unfinished walk.
C22_TruncationReported ==
    (HpDecodeOver /\ hp.pc # "enc_failed" /\ hp.cut) => dec.rc = 0 - 1

\* every node under n is a leaf or has both children
RECURSIVE HpFull(_)
HpFull(n) ==
    /\ ~IsNull(n)
    /\ IsLeaf(n) \/ (HpFull(NodeLeft(n)) /\ HpFull(NodeRight(n)))
HpStreamTree == deserialize_tree(BitsOfBytes(HpStream), 1)

\* C23: when the bit stream ends inside the serialized tree,
\* hp_decompress_buffer returns -1 and no output; it decodes symbols only
\* with a tree that was read completely, in which no node has a missing
\* child.
C23_TruncatedTreeRejected ==
    /\ (HpDecodeOver /\ hp.tree_eof)
          => /\ dec.rc = 0 - 1
             /\ dec.out = <<>>
             /\ hp.pc = "dec_failed"
    /\ (mode = "hp" /\ hp.pc = "dec") => (~hp.tree_eof /\ HpFull(hp.root))
C23_Witness ==
    /\ HpDecodeOver
    /\ Len(HpStream) > 0
    /\ HpStreamTree.eof
    /\ ~IsNull(HpStreamTree.node)
    /\ ~IsLeaf(HpStreamTree.node)
    /\ IsNull(NodeRight(HpStreamTree.node))
    /\ hp.pc = "dec_failed"
    /\ dec.rc = 0 - 1

\* C24: undo_predictor(apply_predictor(b)) = b for every buffer b, the
\* predicted bytes being the differences modulo 256 to the byte before
\* (0 before the first); this includes the all-zero, the all-0xFF and the
\* empty buffer.
C24_PredictorRoundTrip ==
    /\ (mode = "hp" /\ phase \in {"predicted", "restored"})
          => /\ Len(comp.out) = Len(in_buf)
             /\ \A i \in 1..Len(in_buf) :
                   /\ comp.out[i] \in 0..255
                   /\ (comp.out[i] + (IF i = 1 THEN 0 ELSE in_buf[i - 1])) % 256
                         = in_buf[i]
    /\ (mode = "hp" /\ phase = "restored") => dec.out = in_buf
C24_Witness ==
    /\ mode = "hp"
    /\ phase = "restored"
    /\ Len(in_buf) >= 3
    /\ \A i \in 1..Len(in_buf) : in_buf[i] = 255
    /\ comp.out # in_buf
    /\ dec.out = in_buf

(* ===================== claims: LZW, part 2 ============================= *)
\* positions k of the compressed stream whose code is the next code about
\* to be allocated when it is read
LzwKwKwKAt(stream, k) ==
    k >= 2 /\ LzwCodeOf(stream, k) = LzwNextFreeAt(k)

\* C25: a code equal to the next code about to be allocated is decoded as
\* the previous string followed by its first byte, so that for every
\* non-empty block lzw_decompress on the output of lzw_compress returns 0
\* and the block itself.
C25_KwKwKRoundTrip ==
    (mode = "lzw" /\ ~LzwDirect /\ phase = "decompressed" /\ comp.rc = 0)
        => dec.rc = 0 /\ dec.out = in_buf

(* ===================== claims: Huffman tree ============================ *)
\* the symbols of the leaves under n, left to right
RECURSIVE HpLeafSyms(_)
HpLeafSyms(n) ==
    IF IsNull(n) THEN <<>>
    ELSE IF IsLeaf(n) THEN <<NodeSym(n)>>
    ELSE HpLeafSyms(NodeLeft(n)) \o HpLeafSyms(NodeRight(n))
HpCount(data, sym) == Cardinality({i \in 1..Len(data) : data[i] = sym})
\* a leaf carries the number of occurrences of its symbol, an inner node
\* the sum of its two children
RECURSIVE HpFreqOk(_, _)
HpFreqOk(n, data) ==
    IF IsLeaf(n) THEN NodeFreq(n) = HpCount(data, NodeSym(n))
    ELSE /\ ~IsNull(NodeLeft(n))
         /\ ~IsNull(NodeRight(n))
         /\ NodeFreq(n) = NodeFreq(NodeLeft(n)) + NodeFreq(NodeRight(n))
         /\ HpFreqOk(NodeLeft(n), data)
         /\ HpFreqOk(NodeRight(n), data)
HpOccurs(nodes, x) == Cardinality({k \in 1..Len(nodes) : nodes[k] = x})
HpPredicted == apply_predictor(in_buf)
HpSymbols == {HpPredicted[i] : i \in 1..Len(in_buf)}

\* the tree handed to build_codes and serialize_tree
HpTreeOk ==
    (mode = "hp" /\ hp.pc = "enc_done")
        => /\ HpFull(hp.root)
           /\ Len(HpLeafSyms(hp.root)) = Cardinality(HpSymbols)
           /\ {HpLeafSyms(hp.root)[k] : k \in 1..Len(HpLeafSyms(hp.root))}
                 = HpSymbols
           /\ HpFreqOk(hp.root, HpPredicted)
           /\ NodeFreq(hp.root) = Len(in_buf)
           /\ hp.root
                 = HpBuild(HpLeaves(Reverse(HpPredicted), HpSymbols))
\* one turn of the build loop
HpMergeStep == mode = "hp" /\ hp.pc = "build" /\ hp'.pc = "build"
HpMergeOk ==
    /\ Len(hp'.nodes) = Len(hp.nodes) - 1
    /\ \E a, b \in 1..Len(hp.nodes) :
          /\ a # b
          /\ \A k \in 1..Len(hp.nodes) \ {a, b} :
                /\ NodeFreq(hp.nodes[a]) <= NodeFreq(hp.nodes[k])
                /\ NodeFreq(hp.nodes[b]) <= NodeFreq(hp.nodes[k])
          /\ LET parent == new_node(0, NodeFreq(hp.nodes[a])
                                         + NodeFreq(hp.nodes[b]),
                                    hp.nodes[a], hp.nodes[b]) IN
             /\ HpOccurs(hp'.nodes, parent) = 1
             /\ HpOccurs(hp'.nodes, hp.nodes[a]) = 0
             /\ HpOccurs(hp'.nodes, hp.nodes[b]) = 0
             /\ \A k \in 1..Len(hp.nodes) \ {a, b} :
                   HpOccurs(hp'.nodes, hp.nodes[k]) = 1

\* C26: every turn of the build loop of hp_compress_buffer replaces the two
\* nodes of lowest frequency by one parent whose frequency is their sum;
\* the final tree has exactly one leaf per distinct predicted symbol, every
\* other node has two children, and the tree depends on the histogram only.
C26_TreeConstruction ==
    /\ []HpTreeOk
    /\ [][HpMergeStep => HpMergeOk]_vars
C26_Witness ==
    /\ mode = "hp"
    /\ hp.pc = "enc_done"
    /\ Len(HpLeafSyms(hp.root)) >= 3
    /\ IsLeaf(NodeLeft(hp.root)) \/ IsLeaf(NodeRight(hp.root))
    /\ HpCount(HpPredicted, HpPredicted[1]) >= 2
    /\ HpFreqOk(hp.root, HpPredicted)

(* ===================== claims: bit writer capacity ===================== *)
\* C30: for every non-empty input hp_compress_buffer keeps every bit it
\* hands to the bit writer (tree, 32-bit length and codes fit in 3*len
\* bytes), and hp_decompress_buffer on its output returns 0 and the input.
C30_NoBitDropped ==
    /\ (mode = "hp" /\ hp.pc = "enc_done")
          => /\ hp.bits <= HpCapacityBits(Len(in_buf))
             /\ hp.written = hp.bits
    /\ (HpRoundTripDone /\ Len(in_buf) > 0)
          => dec.rc = 0 /\ dec.out = in_buf

(* ===================== claims: failed tp_submit ======================== *)
\* C29: compress_chunked_parallel returns 0 only if the task of every block
\* was accepted by tp_submit, ran, and reported err == 0; when tp_submit
\* fails for a block the call returns -1.
C29_SubmitFailureFailsCall ==
    (mode = "par" /\ phase = "gathered" /\ comp.rc = 0)
        => \A i \in 0..(n_chunks - 1) :
              /\ ret[i] = "ok"
              /\ execs[i] = 1
              /\ tasks[i].err = 0

(* ===================== claims: pool, part 3 ============================ *)
\* workers between the dequeue of line 69 and the active-- of line 75
Executing == {w \in Workers : WState(w) = "Running"}
PoolCounters ==
    /\ active = Cardinality(Executing)
    /\ 0 <= active /\ active <= nthreads
    /\ 0 <= q_count /\ q_count <= q_cap
\* a worker leaves lines 75-79 and waiters on cv_done are woken
DoneBroadcast ==
    /\ \E w \in Workers : wpc[w] = "w_finish" /\ wpc'[w] # "w_finish"
    /\ cvDone # {}
    /\ cvDone' = {}

\* C28: `active` is the number of workers executing a task, 0 <= active <=
\* nthreads, 0 <= q_count <= q_cap, and cv_done is broadcast only in a
\* state with q_count = 0 and active = 0.
C28_CounterInvariant ==
    /\ [](mode \in {"pool2", "burst"} => PoolCounters)
    /\ [][DoneBroadcast => (Len(queue') = 0 /\ active' = 0)]_vars
C28_Witness ==
    /\ mode = "pool2"
    /\ PoolCounters
    /\ \E c \in Clients : cpc[c] = "wt_lock"
    /\ \E c \in Clients : cpc[c] = "s_body"
    /\ cvDone = {}
    /\ q_count = 0
    /\ active = 0
    /\ \A w \in Workers : wpc[w] \in {"w_lock", "w_wait"}
    /\ \E t \in TaskIds : execs[t] = 1
    /\ nthreads = NWorkers

(* ===================== claims: pool liveness =========================== *)
InWait(c) == cpc[c] \in {"wt_check", "wt_wait", "wt_lock"}
InDestroy(c) == cpc[c] \in {"d_body", "d_join"}
AllJoined == joined = nthreads /\ \A w \in Workers : wpc[w] = "w_stopped"

====
